---- MODULE Spec2Model ----
(***************************************************************************)
(* State-machine model of the file-validation pipeline:                    *)
(*   - the two hash caches  (src/core/file_hash_cache.py,                  *)
(*                           src/pipeline/cache.py)                        *)
(*   - the two engines      (src/core/pipeline_engine.py,                  *)
(*                           src/pipeline/engine.py)                       *)
(*   - the plugin ordering  (src/pipeline/plugins.py)                      *)
(* Every specification below shares the one set of variables; a            *)
(* specification leaves the variables of the other components unchanged.   *)
(***************************************************************************)
EXTENDS Integers, Sequences, FiniteSets, TLC

\* ------------------------------------------------------------------ bounds
MaxContent == 2     \* the contents a file may have are 1..MaxContent
MaxTime == 2        \* values datetime.now() may return

\* ------------------------------------------------------------- the file system
Files == {"/d/f1.txt", "/d/f2.py"}                \* absolute canonical paths
Paths == Files \cup {"f1.txt"}                    \* what a caller may pass
CachePaths == {"/d/f1.txt", "f1.txt"}             \* the file the cache calls are about
NoFile == [regular |-> FALSE]
Contents == {[regular |-> TRUE, bytes |-> n] : n \in 1..MaxContent}
Times == 1..MaxTime

\* Path(p).resolve(): a relative path is made absolute against the cwd /d
Resolve(p) == IF p = "f1.txt" THEN "/d/f1.txt" ELSE p

\* Path.is_file()
IsFile(fs, f) == fs[f].regular

\* hashlib.sha256 over the bytes of the file: one digest per content
HashFile(fs, f) == <<"sha256", fs[f].bytes>>

\* the hash="" placeholder of the pipeline cache
EmptyHash == <<"", 0>>

VARIABLES
  impl,      \* which implementation the run exercises: "core" or "pipeline"
  files,     \* file system: path -> content
  cache,     \* FileHashCache._cache / ._data : dict path -> CacheEntry
  pending,   \* core FileHashCache._pending_hashes : dict path -> digest
  dirty,     \* FileHashCache._dirty
  disk,      \* content of the cache file
  ret,       \* the last cache call and what it returned or raised
  chain,     \* history: progress of a mark_validated ; save ; reload sequence
  touched    \* history: files modified while their digest was staged

cacheVars == <<impl, files, cache, pending, dirty, disk, ret, chain, touched>>

VARIABLES
  registry,  \* PluginManager._plugins: the registered plugins, in insertion order
  ordRet     \* the last manager call and what it returned or raised

orderVars == <<registry, ordRet>>

VARIABLES
  hasCache,    \* core engine: self.cache is not None
  corePlugins, \* core engine: what plugin_manager.get_plugins_for_file returns
  pc,          \* where process_files / process_file stands
  inputs,      \* the file_paths of the running process_files call
  results,     \* the records process_files has collected
  batch,       \* how the last process_files call ended
  calls,       \* number of process_file calls started
  cur,         \* the running (or last) process_file call: locals and history
  outputs,     \* files in output_dir: name -> content
  reports,     \* sidecar JSON reports in output_dir: name -> report
  log,         \* lines of the JSONL log
  prior        \* history: how the last call on each file ended, "" once modified

VARIABLES
  pluginsDir,  \* core PluginManager: the manifests under plugins_dir, sorted by path
  manager,     \* core PluginManager: _manifests, _dependencies, _load_order, _instances
  mgrRet       \* the last discover / load_plugins call and how it ended

mgrVars == <<pluginsDir, manager, mgrRet>>

VARIABLES
  clock,       \* datetime.now(timezone.utc), in whole milliseconds since the epoch
  stamp        \* core engine: the timestamp a process_file call read and what it made of it

ulidVars == <<clock, stamp>>

engineVars == <<hasCache, corePlugins, pc, inputs, results, batch, calls, cur,
                outputs, reports, log, prior, mgrVars, ulidVars>>

VARIABLES
  cachePath,   \* name of the cache file handed to FileHashCache(...)
  tmpFile,     \* content of save()'s temporary file; absent when there is none
  savePc,      \* where a running save() stands
  saveRun      \* history: the cache file before the running save() and its target

saveVars == <<cachePath, tmpFile, savePc, saveRun>>

VARIABLES
  writer,      \* which log writer: "manager" (JSONLManager) or "rotating" (JSONLRotatingLogger)
  maxBytes,    \* the writer's max_bytes
  logFile,     \* bytes of the JSONL file the writer owns
  lastAppend,  \* history: the last append that returned
  everRotated, \* history: some append rewrote the file
  threads,     \* the threads calling JSONLManager.append: position and local line
  lock,        \* holder of JSONLManager._lock, or "free"
  order        \* history: the lines written, in the order the lock was taken

logVars == <<writer, maxBytes, logFile, lastAppend, everRotated, threads, lock, order>>

vars == <<cacheVars, orderVars, engineVars, saveVars, logVars>>

\* ------------------------------------------------------------ dict helpers
Put(d, k, v) == [x \in DOMAIN d \cup {k} |-> IF x = k THEN v ELSE d[x]]
Del(d, k) == [x \in DOMAIN d \ {k} |-> d[x]]
EmptyDict == [x \in {} |-> 0]

\* core PluginManager.__init__: nothing discovered, nothing instantiated
NoManager ==
  [manifests |-> EmptyDict, dependencies |-> EmptyDict, load_order |-> <<>>,
   instances |-> EmptyDict, serial |-> 0]

\* no process_file call has read the clock yet
NoStamp == [timestamp |-> 0, run_id |-> <<>>, timestamp_utc |-> 0, safe_timestamp |-> 0]

\* no discover / load_plugins call made yet
NoMgrRet ==
  [op |-> "none", raised |-> "", msg |-> "", pre |-> NoManager, made |-> <<>>,
   returned |-> <<>>]

\* ------------------------------------------------- the cache file as JSON
JStr(v) == [t |-> "str", v |-> v]
JBool(v) == [t |-> "bool", v |-> v]
JObj(m) == [t |-> "obj", m |-> m]
JNum(n) == [t |-> "num", n |-> n]

\* CacheEntry.to_dict / FileHashCache._serialize
EntryToDict(e) ==
  JObj([k \in {"hash", "last_validated", "had_errors"} |->
          CASE k = "hash" -> JStr(e.hash)
            [] k = "last_validated" -> JStr(e.last_validated)
            [] OTHER -> JBool(e.had_errors)])

\* json.dump of {path: entry.to_dict()} and the rename over the cache file
Serialize(c) == [kind |-> "json", top |-> JObj([p \in DOMAIN c |-> EntryToDict(c[p])])]

NoCacheFile == [kind |-> "absent"]

\* dict.get(key, default) on a JSON object
JGet(o, k, default) == IF k \in DOMAIN o.m THEN o.m[k] ELSE default
JNull == [t |-> "null"]

\* bool(x) of a JSON value
Truthy(j) ==
  CASE j.t = "bool" -> j.v
    [] j.t = "null" -> FALSE
    [] j.t = "num" -> j.n # 0
    [] OTHER -> TRUE

\* core _load: keep the entries whose payload is a dict with str hash and
\* str last_validated; had_errors defaults to False and is coerced by bool()
CoreLoadable(payload) ==
  /\ payload.t = "obj"
  /\ JGet(payload, "hash", JNull).t = "str"
  /\ JGet(payload, "last_validated", JNull).t = "str"

\* faulty variant: had_errors is not read back, every entry loads as clean
CoreLoadEntryNoErrors(payload) ==
  [hash |-> payload.m["hash"].v,
   last_validated |-> payload.m["last_validated"].v,
   had_errors |-> FALSE]

\* core _load: the CacheEntry built from a payload that passed the checks
CoreLoadEntry(payload) ==
  [hash |-> payload.m["hash"].v,
   last_validated |-> payload.m["last_validated"].v,
   had_errors |-> Truthy(JGet(payload, "had_errors", JBool(FALSE)))]

CoreLoad(d) ==
  IF d.kind # "json" THEN EmptyDict
  ELSE LET raw == d.top.m
           keep == {p \in DOMAIN raw : CoreLoadable(raw[p])}
       IN [p \in keep |-> CoreLoadEntry(raw[p])]

\* the Python value json.loads gives for a JSON scalar
PyValue(j) ==
  CASE j.t \in {"str", "bool"} -> j.v
    [] j.t = "num" -> j.n
    [] OTHER -> "None"

\* pipeline CacheEntry(**value): the fields are taken as they come, had_errors
\* defaults to False
PipeLoadEntry(value) ==
  [hash |-> PyValue(value.m["hash"]),
   last_validated |-> PyValue(value.m["last_validated"]),
   had_errors |-> PyValue(JGet(value, "had_errors", JBool(FALSE)))]

\* pipeline _load: CacheEntry(**value) for every item
PipeLoad(d) ==
  IF d.kind # "json" THEN EmptyDict
  ELSE LET raw == d.top.m
       IN [p \in DOMAIN raw |-> PipeLoadEntry(raw[p])]

\* core _load: the exception that leaves the constructor, "" when none does.
\* read_text raises UnicodeDecodeError, which neither except clause names, and
\* raw.items() needs a dict
CoreLoadRaises(d) ==
  IF d.kind = "binary" THEN "UnicodeDecodeError"
  ELSE IF d.kind = "json" /\ d.top.t # "obj" THEN "AttributeError"
  ELSE ""

\* pipeline _load: the same two, and CacheEntry(**value) needs a mapping
PipeLoadRaises(d) ==
  IF d.kind = "binary" THEN "UnicodeDecodeError"
  ELSE IF d.kind = "json" /\ d.top.t # "obj" THEN "AttributeError"
  ELSE IF d.kind = "json" /\ \E p \in DOMAIN d.top.m : d.top.m[p].t # "obj" THEN "TypeError"
  ELSE ""

\* ===================================================== core FileHashCache
\* has_changed raises FileNotFoundError unless the resolved path is a file
CoreHasChangedRaises(fs, f) == ~IsFile(fs, f)

\* has_changed: self._pending_hashes[file_key] = current_hash
CoreStaged(pend, fs, f) == Put(pend, f, HashFile(fs, f))

\* faulty variant: has_changed records the digest it computed as validated
CoreCheckedRecords(c, fs, f) ==
  Put(c, f, [hash |-> HashFile(fs, f), last_validated |-> 1, had_errors |-> FALSE])

\* has_changed: self._cache is only read
CoreChecked(c, fs, f) == c

\* faulty variant: the hash comparison is forgotten, only a missing entry counts
CoreHasChangedValueNoEntryOnly(c, fs, f) == f \notin DOMAIN c

\* has_changed: True when no entry exists or the stored hash differs
CoreHasChangedValue(c, fs, f) ==
  IF f \notin DOMAIN c THEN TRUE ELSE c[f].hash # HashFile(fs, f)

\* faulty variant: the fresh digest is forgotten, a file with no staged hash
\* gets the empty placeholder
CoreMarkHashStagedOnly(pend, fs, f) ==
  IF f \in DOMAIN pend THEN pend[f] ELSE EmptyHash

\* mark_validated: the staged hash if present, otherwise a fresh digest
CoreMarkHash(pend, fs, f) ==
  IF f \in DOMAIN pend THEN pend[f] ELSE HashFile(fs, f)

\* mark_validated raises when it has to hash a path that cannot be opened
CoreMarkRaises(pend, fs, f) == f \notin DOMAIN pend /\ ~IsFile(fs, f)

\* faulty variant: mark_validated rebuilds the mapping around the one entry
CoreMarkedAlone(c, pend, fs, f, e, t) ==
  Put(EmptyDict, f,
      [hash |-> CoreMarkHash(pend, fs, f), last_validated |-> t, had_errors |-> e])

\* mark_validated: the entry written for the file
CoreMarked(c, pend, fs, f, e, t) ==
  Put(c, f, [hash |-> CoreMarkHash(pend, fs, f), last_validated |-> t, had_errors |-> e])

\* faulty variant: the dirty test is inverted, a dirty cache is not written
SavedDiskInverted(c, isDirty, d) == IF isDirty THEN d ELSE Serialize(c)

\* save: what the cache file holds after a save that does not fail
SavedDisk(c, isDirty, d) == IF isDirty THEN Serialize(c) ELSE d

\* what a new FileHashCache(cache_file) holds
Loaded(d) == IF impl = "core" THEN CoreLoad(d) ELSE PipeLoad(d)

\* ================================================= pipeline FileHashCache
\* has_changed: file_path.read_bytes() raises when the path is not a file
PipeHasChangedRaises(fs, f) == ~IsFile(fs, f)

\* faulty variant: every file is reported as changed
PipeHasChangedValueAlways(c, fs, f) == TRUE

\* has_changed: True when no entry exists or the stored hash differs
PipeHasChangedValue(c, fs, f) ==
  IF f \notin DOMAIN c THEN TRUE ELSE c[f].hash # HashFile(fs, f)

\* faulty variant: has_changed only reads the mapping
PipeCheckedReadOnly(c, fs, f, t) == c

\* has_changed records the new digest itself when it returns True
PipeChecked(c, fs, f, t) ==
  IF PipeHasChangedValue(c, fs, f)
  THEN Put(c, f, [hash |-> HashFile(fs, f), last_validated |-> t, had_errors |-> FALSE])
  ELSE c

\* mark_validated: setdefault(hash=""), then stamp and set had_errors
PipeMarked(c, f, e, t) ==
  LET old == IF f \in DOMAIN c THEN c[f]
             ELSE [hash |-> EmptyHash, last_validated |-> t, had_errors |-> e]
  IN Put(c, f, [old EXCEPT !.last_validated = t, !.had_errors = e])

\* --------------------------------------------------------- history helpers
NoChain == [stage |-> 0, f |-> "", clean |-> TRUE, e |-> FALSE]
Ret(op, p, out) == [op |-> op, path |-> p, out |-> out]
BoolStr(b) == IF b THEN "True" ELSE "False"

\* ========================================== calls on a cache, one at a time
HasChanged(p) ==
  LET f == Resolve(p) IN
  /\ impl = "core"
  /\ IF CoreHasChangedRaises(files, f)
     THEN /\ ret' = Ret("has_changed", p, "FileNotFoundError")
          /\ UNCHANGED <<pending, touched>>
          /\ chain' = NoChain
     ELSE /\ pending' = CoreStaged(pending, files, f)
          /\ touched' = touched \ {f}
          /\ ret' = Ret("has_changed", p, BoolStr(CoreHasChangedValue(cache, files, f)))
          /\ chain' = IF chain.stage = 3 /\ chain.f = f
                      THEN [chain EXCEPT !.stage = 4] ELSE NoChain
  /\ cache' = IF CoreHasChangedRaises(files, f) THEN cache ELSE CoreChecked(cache, files, f)
  /\ UNCHANGED <<impl, files, dirty, disk>>
  /\ UNCHANGED <<orderVars, engineVars, saveVars, logVars>>

MarkValidated(p, e) ==
  LET f == Resolve(p) IN
  /\ impl = "core"
  /\ IF CoreMarkRaises(pending, files, f)
     THEN /\ ret' = Ret("mark_validated", p, "FileNotFoundError")
          /\ chain' = NoChain
          /\ UNCHANGED <<cache, pending, dirty, touched>>
     ELSE \E t \in Times :
          /\ cache' = CoreMarked(cache, pending, files, f, e, t)
          /\ pending' = Del(pending, f)
          /\ dirty' = TRUE
          /\ touched' = touched \ {f}
          /\ chain' = [stage |-> 1, f |-> f, clean |-> f \notin touched, e |-> e]
          /\ ret' = Ret("mark_validated", p, "None")
  /\ UNCHANGED <<impl, files, disk>>
  /\ UNCHANGED <<orderVars, engineVars, saveVars, logVars>>

Remove(p) ==
  LET f == Resolve(p) IN
  /\ impl = "core"
  /\ cache' = Del(cache, f)
  /\ dirty' = (dirty \/ f \in DOMAIN cache)
  /\ ret' = Ret("remove", p, "None")
  /\ chain' = NoChain
  /\ UNCHANGED <<impl, files, pending, disk, touched>>
  /\ UNCHANGED <<orderVars, engineVars, saveVars, logVars>>

PipeHasChanged(p) ==
  LET f == Resolve(p) IN
  /\ impl = "pipeline"
  /\ IF PipeHasChangedRaises(files, f)
     THEN /\ ret' = Ret("has_changed", p, "FileNotFoundError")
          /\ chain' = NoChain
          /\ UNCHANGED <<cache, dirty>>
     ELSE \E t \in Times :
          /\ cache' = PipeChecked(cache, files, f, t)
          /\ dirty' = (dirty \/ PipeHasChangedValue(cache, files, f))
          /\ ret' = Ret("has_changed", p, BoolStr(PipeHasChangedValue(cache, files, f)))
          /\ chain' = IF chain.stage = 3 /\ chain.f = f
                      THEN [chain EXCEPT !.stage = 4] ELSE NoChain
  /\ UNCHANGED <<impl, files, pending, disk, touched>>
  /\ UNCHANGED <<orderVars, engineVars, saveVars, logVars>>

PipeMarkValidated(p, e) ==
  LET f == Resolve(p) IN
  /\ impl = "pipeline"
  /\ \E t \in Times : cache' = PipeMarked(cache, f, e, t)
  /\ dirty' = TRUE
  /\ chain' = [stage |-> 1, f |-> f, clean |-> TRUE, e |-> e]
  /\ ret' = Ret("mark_validated", p, "None")
  /\ UNCHANGED <<impl, files, pending, disk, touched>>
  /\ UNCHANGED <<orderVars, engineVars, saveVars, logVars>>

\* save() that completes: the temp file is written and renamed over the target
Save ==
  /\ disk' = SavedDisk(cache, dirty, disk)
  /\ dirty' = FALSE
  /\ ret' = Ret("save", "", "None")
  /\ chain' = IF chain.stage = 1 THEN [chain EXCEPT !.stage = 2] ELSE NoChain
  /\ UNCHANGED <<impl, files, cache, pending, touched>>
  /\ UNCHANGED <<orderVars, engineVars, saveVars, logVars>>

\* save() whose write or rename raises: the exception propagates
SaveFails ==
  /\ dirty
  /\ ret' = Ret("save", "", "OSError")
  /\ chain' = NoChain
  /\ UNCHANGED <<impl, files, cache, pending, dirty, disk, touched>>
  /\ UNCHANGED <<orderVars, engineVars, saveVars, logVars>>

\* FileHashCache(cache_file): a new object over the same cache file
Reload ==
  /\ cache' = Loaded(disk)
  /\ pending' = EmptyDict
  /\ dirty' = FALSE
  /\ touched' = {}
  /\ ret' = Ret("load", "", "None")
  /\ chain' = IF chain.stage = 2 THEN [chain EXCEPT !.stage = 3] ELSE NoChain
  /\ UNCHANGED <<impl, files, disk>>
  /\ UNCHANGED <<orderVars, engineVars, saveVars, logVars>>

\* something outside the program writes, creates or deletes a file
ModifyFile(f, c) ==
  /\ c # files[f]
  /\ files' = [files EXCEPT ![f] = c]
  /\ touched' = IF f \in DOMAIN pending THEN touched \cup {f} ELSE touched
  /\ ret' = Ret("modify", f, "None")
  /\ chain' = NoChain
  /\ UNCHANGED <<impl, cache, pending, dirty, disk>>
  /\ UNCHANGED <<orderVars, engineVars, saveVars, logVars>>

\* an entry an earlier run left in the cache file for the other path
OldEntry == [hash |-> <<"sha256", 1>>, last_validated |-> 1, had_errors |-> TRUE]

\* the engine before any process_files call
NoRecord == [status |-> "none"]
NoCall == [p |-> "", f |-> "", run_id |-> 0, plugins |-> <<>>, k |-> 0,
           work |-> NoFile, runs |-> <<>>, summaries |-> <<>>, out |-> <<>>,
           staged |-> NoFile, seen |-> <<>>, state |-> {}, tmp_dir |-> FALSE,
           events |-> <<>>,
           pre |-> [file |-> NoFile, cache |-> EmptyDict, disk |-> NoCacheFile,
                    log |-> <<>>, outputs |-> EmptyDict],
           clean |-> TRUE, prior |-> "", outcome |-> "", cause |-> "",
           record |-> NoRecord]
NoBatch == [ended |-> "none", raised |-> ""]
NoSaveRun == [pre |-> NoCacheFile, new |-> NoCacheFile, started |-> FALSE, crashed |-> FALSE]
NoAppend == [line |-> <<>>, pre |-> <<>>, rotated |-> FALSE, done |-> FALSE]
Threads == {"t1", "t2"}
IdleThread == [pc |-> "idle", line |-> <<>>]
MinBytes == 5      \* the smaller max_bytes a log writer is built with
MaxBytes == 9      \* the larger max_bytes a log writer is built with
NoOrdRet == [op |-> "init", file |-> "", raised |-> "", msg |-> "", order |-> <<>>]

\* a cache over a cache file that is absent or was left by an earlier run
InitCache ==
  /\ impl \in {"core", "pipeline"}
  /\ files \in [Files -> Contents \cup {NoFile}]
  /\ files["/d/f2.py"] = NoFile
  /\ disk \in {NoCacheFile, Serialize(Put(EmptyDict, "/d/f2.py", OldEntry))}
  /\ cache = Loaded(disk)
  /\ pending = EmptyDict
  /\ dirty = FALSE
  /\ ret = Ret("init", "", "None")
  /\ chain = NoChain
  /\ touched = {}
  /\ registry = <<>> /\ ordRet = NoOrdRet
  /\ hasCache = TRUE /\ corePlugins = <<>> /\ pc = "idle" /\ inputs = <<>>
  /\ results = <<>> /\ batch = NoBatch /\ calls = 0 /\ cur = NoCall
  /\ outputs = EmptyDict /\ reports = EmptyDict /\ log = <<>>
  /\ prior = [f \in Files |-> ""]
  /\ cachePath = "cache.json" /\ tmpFile = NoCacheFile /\ savePc = "idle"
  /\ saveRun = NoSaveRun
  /\ writer = "manager" /\ maxBytes = MaxBytes /\ logFile = <<>>
  /\ lastAppend = NoAppend /\ everRotated = FALSE
  /\ threads = [t \in Threads |-> IdleThread] /\ lock = "free" /\ order = <<>>
  /\ pluginsDir = <<>> /\ manager = NoManager /\ mgrRet = NoMgrRet
  /\ clock = 0 /\ stamp = NoStamp

NextCache ==
  \/ \E p \in CachePaths : HasChanged(p)
  \/ \E p \in CachePaths, e \in BOOLEAN : MarkValidated(p, e)
  \/ \E p \in CachePaths : Remove(p)
  \/ \E p \in CachePaths : PipeHasChanged(p)
  \/ \E p \in CachePaths, e \in BOOLEAN : PipeMarkValidated(p, e)
  \/ Save
  \/ SaveFails
  \/ Reload
  \/ \E c \in Contents \cup {NoFile} : ModifyFile("/d/f1.txt", c)

\* ================================================= pipeline PluginManager
\* A plugin object: plugin_id, requires (a tuple of ids) and the files its
\* applies_to() accepts.
PluginIds == {"a", "b", "c"}
MaxRequires == 2    \* longest requires tuple of a plugin
RequireNames == PluginIds \cup {"ghost"}      \* "ghost" is never registered

NameOrder == <<"a", "b", "c", "ghost">>

Range(q) == {q[i] : i \in 1..Len(q)}

\* the requires tuples tried: up to MaxRequires distinct names
RequiresTuples ==
  {SelectSeq(NameOrder, LAMBDA x : x \in S) :
     S \in {T \in SUBSET RequireNames : Cardinality(T) <= MaxRequires}}

\* plugin "c" may be one whose applies_to accepts only .py files
PluginObjects ==
  {[plugin_id |-> i, requires |-> r, applies |-> a] :
     i \in PluginIds \cup {""}, r \in RequiresTuples, a \in {Files, {"/d/f2.py"}}}
  \ {pl \in [plugin_id : PluginIds \cup {""}, requires : RequiresTuples,
              applies : {Files, {"/d/f2.py"}}] :
       pl.plugin_id # "c" /\ pl.applies # Files}

\* BasePlugin.applies_to(file_path), as overridden by the plugin
AppliesTo(pl, f) == f \in pl.applies

\* applicable_plugins: the registered plugins that apply, in registration order
ApplicablePlugins(reg, f) == SelectSeq(reg, LAMBDA pl : AppliesTo(pl, f))

AppendNew(q, x) == IF x \in Range(q) THEN q ELSE Append(q, x)

RECURSIVE AppendAllNew(_, _)
AppendAllNew(q, xs) ==
  IF xs = <<>> THEN q ELSE AppendAllNew(AppendNew(q, Head(xs)), Tail(xs))

\* TopologicalSorter(graph): the nodes in the order add() first meets them,
\* each key followed by its predecessors
RECURSIVE GraphNodes(_, _)
GraphNodes(app, acc) ==
  IF app = <<>> THEN acc
  ELSE GraphNodes(Tail(app),
                  AppendAllNew(AppendNew(acc, Head(app).plugin_id), Head(app).requires))

\* npredecessors of a node after all add() calls
NPredecessors(app, n) ==
  IF \E i \in 1..Len(app) : app[i].plugin_id = n
  THEN Len(app[CHOOSE i \in 1..Len(app) : app[i].plugin_id = n].requires)
  ELSE 0

\* the successors list of node n: every key that names n, in add() order
SuccessorIds(app, n) ==
  LET keyed(i) == [j \in 1..Len(SelectSeq(app[i].requires, LAMBDA x : x = n)) |-> app[i].plugin_id]
      cat[i \in 0..Len(app)] == IF i = 0 THEN <<>> ELSE cat[i - 1] \o keyed(i)
  IN cat[Len(app)]

\* _find_cycle: some node reaches itself along successor edges
RECURSIVE ReachFrom(_, _, _)
ReachFrom(app, frontier, seen) ==
  LET next == UNION {Range(SuccessorIds(app, n)) : n \in frontier}
  IN IF next \subseteq seen THEN seen
     ELSE ReachFrom(app, next \ seen, seen \cup next)

HasCycle(app) ==
  \E n \in Range(GraphNodes(app, <<>>)) : n \in ReachFrom(app, {n}, {})

\* done(*nodes): walk the successors of the finished nodes in order, count
\* each down and queue those that reach zero
RECURSIVE DoneNodes(_, _, _)
DoneNodes(succs, np, ready) ==
  IF succs = <<>> THEN [np |-> np, ready |-> ready]
  ELSE LET x == Head(succs)
           np2 == [np EXCEPT ![x] = @ - 1]
       IN DoneNodes(Tail(succs), np2, IF np2[x] = 0 THEN Append(ready, x) ELSE ready)

RECURSIVE Flatten(_, _)
Flatten(app, group) ==
  IF group = <<>> THEN <<>>
  ELSE SuccessorIds(app, Head(group)) \o Flatten(app, Tail(group))

\* static_order after prepare(): get_ready(), yield the group, done(group)
RECURSIVE StaticOrderFrom(_, _, _, _)
StaticOrderFrom(app, ready, np, out) ==
  IF ready = <<>> THEN out
  ELSE LET d == DoneNodes(Flatten(app, ready), np, <<>>)
       IN StaticOrderFrom(app, d.ready, d.np, out \o ready)

StaticOrder(app) ==
  LET nodes == GraphNodes(app, <<>>)
      np == [n \in Range(nodes) |-> NPredecessors(app, n)]
  IN StaticOrderFrom(app, SelectSeq(nodes, LAMBDA n : np[n] = 0), np, <<>>)

Registered(reg, id) == \E i \in 1..Len(reg) : reg[i].plugin_id = id

\* ordered_plugins(file_path): the ordered ids, or the PluginError raised
OrderedPlugins(reg, f) ==
  LET app == ApplicablePlugins(reg, f) IN
  IF HasCycle(app)
  THEN [raised |-> "PluginError", msg |-> "Cycle detected in plugin dependency graph", order |-> <<>>]
  ELSE IF \E i \in 1..Len(StaticOrder(app)) : ~Registered(reg, StaticOrder(app)[i])
  THEN [raised |-> "PluginError", msg |-> "Unknown plugin", order |-> <<>>]
  ELSE [raised |-> "", msg |-> "", order |-> StaticOrder(app)]

\* register(plugin): plugin ids are unique
Register(pl) ==
  /\ IF pl.plugin_id = ""
     THEN /\ ordRet' = [op |-> "register", file |-> "", raised |-> "PluginError",
                        msg |-> "must define a plugin_id", order |-> <<>>]
          /\ UNCHANGED registry
     ELSE IF Registered(registry, pl.plugin_id)
     THEN /\ ordRet' = [op |-> "register", file |-> "", raised |-> "PluginError",
                        msg |-> "already registered", order |-> <<>>]
          /\ UNCHANGED registry
     ELSE /\ registry' = Append(registry, pl)
          /\ ordRet' = [op |-> "register", file |-> "", raised |-> "", msg |-> "", order |-> <<>>]
  /\ UNCHANGED <<cacheVars, engineVars, saveVars, logVars>>

CallOrderedPlugins(f) ==
  /\ ordRet' = [op |-> "ordered_plugins", file |-> f] @@ OrderedPlugins(registry, f)
  /\ UNCHANGED registry
  /\ UNCHANGED <<cacheVars, engineVars, saveVars, logVars>>

\* a PluginManager with nothing registered; the cache and the engine at rest
InitOrder ==
  /\ registry = <<>> /\ ordRet = NoOrdRet
  /\ impl = "pipeline" /\ files = [f \in Files |-> NoFile] /\ cache = EmptyDict
  /\ pending = EmptyDict /\ dirty = FALSE /\ disk = NoCacheFile
  /\ ret = Ret("init", "", "None") /\ chain = NoChain /\ touched = {}
  /\ hasCache = TRUE /\ corePlugins = <<>> /\ pc = "idle" /\ inputs = <<>>
  /\ results = <<>> /\ batch = NoBatch /\ calls = 0 /\ cur = NoCall
  /\ outputs = EmptyDict /\ reports = EmptyDict /\ log = <<>>
  /\ prior = [f \in Files |-> ""]
  /\ cachePath = "cache.json" /\ tmpFile = NoCacheFile /\ savePc = "idle"
  /\ saveRun = NoSaveRun
  /\ writer = "manager" /\ maxBytes = MaxBytes /\ logFile = <<>>
  /\ lastAppend = NoAppend /\ everRotated = FALSE
  /\ threads = [t \in Threads |-> IdleThread] /\ lock = "free" /\ order = <<>>
  /\ pluginsDir = <<>> /\ manager = NoManager /\ mgrRet = NoMgrRet
  /\ clock = 0 /\ stamp = NoStamp

NextOrder ==
  \/ \E pl \in PluginObjects : Register(pl)
  \/ \E f \in Files : CallOrderedPlugins(f)

\* ============================================================ the engines
MaxCalls == 2      \* process_file calls made in one run of the program
MaxBatch == 2      \* longest file_paths list handed to process_files
MaxPlugins == 2    \* plugins known to the engine's plugin manager

\* Path.suffix, Path.stem and the scratch copy <tmp_dir>/<file name>
Suffix(f) == IF f = "/d/f2.py" THEN ".py" ELSE ".txt"
Stem(f) == IF f = "/d/f2.py" THEN "f2" ELSE "f1"
WorkingFile(f) == IF f = "/d/f2.py" THEN "/tmp/w/f2.py" ELSE "/tmp/w/f1.txt"

\* core BasePlugin objects; the i-th plugin of the manager is named p<i>
CorePluginNames == <<"p1", "p2", "p3">>
CorePluginObjects ==
  [plugin_id : Range(CorePluginNames), name : Range(CorePluginNames),
   enabled : BOOLEAN, file_extensions : {{}, {".py"}}]
\* the lists tried: the first plugin is enabled, a later one takes every
\* file when it is enabled
CorePluginLists ==
  UNION {{q \in [1..n -> CorePluginObjects] :
            \A i \in 1..n :
              /\ q[i].name = CorePluginNames[i] /\ q[i].plugin_id = q[i].name
              /\ IF i = 1 THEN q[i].enabled ELSE q[i].file_extensions = {}}
         : n \in 0..MaxPlugins}

\* BasePlugin.can_process
CanProcess(pl, f) ==
  pl.enabled /\ (pl.file_extensions = {} \/ Suffix(f) \in pl.file_extensions)

\* What a plugin's run() does with the working file: return a clean result,
\* return one warning, fix the file in place, raise, or return something
\* that is not a PluginResult.
PluginRuns == {"ok", "warn", "fix", "raise", "bad"}
FaultMessage == "boom"

\* faulty variant: every plugin is handed a fresh copy of the input
PluginInputFresh(c) == c.staged

\* plugin.execute(working_file) / plugin.run(file_path, state): the plugin
\* reads the one scratch file, as the plugins before it left it
PluginInput(c) == c.work

\* the working file after run(): a fixing plugin rewrites it
Worked(w, run) == IF run = "fix" THEN [w EXCEPT !.bytes = @ + MaxContent] ELSE w

\* the PluginResult a core plugin's run() returns
RunResult(pl, run, wf) ==
  [plugin_id |-> pl.plugin_id, name |-> pl.name, success |-> TRUE,
   auto_fixed_count |-> IF run = "fix" THEN 1 ELSE 0,
   errors |-> IF run = "warn"
              THEN <<[tool |-> pl.name, severity |-> "warning",
                      message |-> "blank line", file |-> wf]>>
              ELSE <<>>]

\* faulty variant: the fault is swallowed and reported as a clean result
BarrierSwallows(pl, msg, wf) == RunResult(pl, "ok", wf)

\* BasePlugin.execute, except branch: the fault becomes a failed PluginResult
Barrier(pl, msg, wf) ==
  [plugin_id |-> pl.plugin_id, name |-> pl.name, success |-> FALSE,
   auto_fixed_count |-> 0,
   errors |-> <<[tool |-> pl.name, severity |-> "error", message |-> msg, file |-> wf]>>]

\* BasePlugin.execute(file_path)
Execute(pl, run, wf) ==
  IF run = "raise" THEN Barrier(pl, FaultMessage, wf) ELSE RunResult(pl, run, wf)

\* PluginResult.to_dict
ResultToDict(r) ==
  [plugin_id |-> r.plugin_id, name |-> r.name, success |-> r.success,
   auto_fixed |-> r.auto_fixed_count, errors |-> r.errors]

\* faulty variant: the count is assigned, not accumulated
TotalErrorsOfLast(rs) == IF rs = <<>> THEN 0 ELSE Len(rs[Len(rs)].errors)

\* total_errors += len(plugin_result.errors)
RECURSIVE TotalErrors(_)
TotalErrors(rs) == IF rs = <<>> THEN 0 ELSE Len(Head(rs).errors) + TotalErrors(Tail(rs))

\* total_fixed += plugin_result.auto_fixed_count
RECURSIVE TotalFixed(_)
TotalFixed(rs) == IF rs = <<>> THEN 0 ELSE Head(rs).auto_fixed_count + TotalFixed(Tail(rs))

\* _copy_to_output: <stem>_VALIDATED_<timestamp>_<run_id><suffix>; the run id
\* stands for the pair of the timestamp and the ULID made from it
CoreOutputName(f, run_id) == <<Stem(f), "_VALIDATED_", run_id, Suffix(f)>>

\* _build_report
BuildReport(c) ==
  [run_id |-> c.run_id, file_in |-> c.f, file_out |-> c.out,
   summary |-> [plugins_run |-> Len(c.summaries),
                total_errors |-> TotalErrors(c.summaries),
                auto_fixed |-> TotalFixed(c.summaries)],
   plugin_results |-> [i \in 1..Len(c.summaries) |-> ResultToDict(c.summaries[i])]]

\* _append_aggregated_log: the record written for one plugin result
CoreLogRecord(c, r) ==
  [run_id |-> c.run_id, file_in |-> c.f, file_out |-> c.out,
   plugin_id |-> r.plugin_id, plugin_name |-> r.name, success |-> r.success,
   auto_fixed |-> r.auto_fixed_count, errors |-> r.errors]

\* the variables no step of an engine changes
engineFrame == <<impl, hasCache, corePlugins, registry, ordRet, ret, chain, touched,
                 saveVars, logVars, mgrVars, ulidVars>>

\* datetime.now() read during a call: the clock moves on from call to call
Now(c) == c.run_id

Event(step, who) == [step |-> step, who |-> who]

\* the path process_files is about to hand to process_file
CurrentInput == inputs[Len(results) + 1]

\* process_files(paths) is called
StartBatch(paths) ==
  /\ pc = "idle"
  /\ calls + Len(paths) <= MaxCalls
  /\ inputs' = paths
  /\ results' = <<>>
  /\ batch' = [ended |-> IF paths = <<>> THEN "returned" ELSE "running", raised |-> ""]
  /\ pc' = IF paths = <<>> THEN "idle" ELSE "begin"
  /\ UNCHANGED <<calls, cur, outputs, reports, log, prior>>
  /\ UNCHANGED <<files, cache, pending, dirty, disk>>
  /\ UNCHANGED engineFrame

\* the loop of process_files after one more record
LoopOn(n) ==
  IF n = Len(inputs)
  THEN pc' = "idle" /\ batch' = [ended |-> "returned", raised |-> ""]
  ELSE pc' = "begin" /\ UNCHANGED batch

\* faulty variant: the except branch records the file as processed
CoreCaughtAsProcessed(p) == [file |-> p, status |-> "processed"]

\* core process_files, except branch: the record for a file that raised
CoreCaught(p) == [file |-> p, status |-> "failed"]

\* process_file returns `record`
Returned(record, outcome, c) ==
  /\ results' = Append(results, record)
  /\ cur' = [c EXCEPT !.outcome = outcome, !.record = record]
  /\ prior' = [prior EXCEPT ![c.f] = IF c.clean THEN outcome ELSE ""]
  /\ LoopOn(Len(results) + 1)

\* faulty variant: the scratch directory is made with mkdtemp and left behind
ExitScratchLeaves(c) == c

\* TemporaryDirectory.__exit__: the with block is left, by its end or by an
\* exception, and the scratch directory is removed
ExitScratch(c) == [c EXCEPT !.tmp_dir = FALSE]

\* process_file raises `exc` at step `cause`: core process_files catches it,
\* pipeline process_files lets it escape
Raised(exc, cause, c) ==
  /\ cur' = [ExitScratch(c) EXCEPT !.outcome = "raised", !.cause = cause,
                       !.record = IF impl = "core" THEN CoreCaught(c.p) ELSE NoRecord]
  /\ prior' = [prior EXCEPT ![c.f] = IF c.clean THEN cause ELSE ""]
  /\ IF impl = "core"
     THEN /\ results' = Append(results, CoreCaught(c.p))
          /\ LoopOn(Len(results) + 1)
     ELSE /\ pc' = "idle"
          /\ batch' = [ended |-> "raised", raised |-> exc]
          /\ UNCHANGED results

\* process_file goes on to step `next`
GoOn(c, next) ==
  /\ cur' = c
  /\ pc' = next
  /\ UNCHANGED <<results, batch, prior>>

\* ------------------------------------------------- core PipelineEngine
\* faulty variant: the cache is updated right after the report is written, and the
\* log records are never appended
CoreAfterLogLast(step) ==
  CASE step = "stage" -> "plugins"
    [] step = "plugins" -> "publish"
    [] step = "publish" -> "report"
    [] step = "report" -> "cache"
    [] step = "log" -> "cache"
    [] step = "cache" -> "save"

\* the statement that follows each step of process_file
CoreAfter(step) ==
  CASE step = "stage" -> "plugins"
    [] step = "plugins" -> "publish"
    [] step = "publish" -> "report"
    [] step = "report" -> "log"
    [] step = "log" -> "cache"
    [] step = "cache" -> "save"

\* process_file up to the point where the scratch directory is created:
\* resolve, is_file, cache query, run id, plugin list
CoreBegin ==
  /\ impl = "core" /\ pc = "begin"
  /\ calls' = calls + 1
  /\ LET p == CurrentInput
         f == Resolve(p)
         c == [NoCall EXCEPT !.p = p, !.f = f, !.run_id = calls + 1, !.prior = prior[f],
                 !.pre = [file |-> files[f], cache |-> cache, disk |-> disk, log |-> log,
                         outputs |-> outputs]]
     IN IF ~IsFile(files, f)
        THEN /\ Raised("FileNotFoundError", "missing", c)
             /\ UNCHANGED <<pending, cache>>
        ELSE /\ pending' = IF hasCache THEN CoreStaged(pending, files, f) ELSE pending
             /\ cache' = IF hasCache THEN CoreChecked(cache, files, f) ELSE cache
             /\ IF hasCache /\ ~CoreHasChangedValue(cache, files, f)
                THEN Returned([file |-> f, status |-> "skipped", reason |-> "unchanged"],
                              "skipped", c)
                ELSE \E mgr \in {"ok", "PluginError"} :
                       IF mgr # "ok" THEN Raised(mgr, "manager", c)
                       ELSE IF corePlugins = <<>>
                       THEN Returned([file |-> f, status |-> "no_plugins"], "no_plugins", c)
                       ELSE GoOn([c EXCEPT !.plugins = corePlugins, !.k = 1], "stage")
  /\ UNCHANGED <<inputs, outputs, reports, log, files, dirty, disk>>
  /\ UNCHANGED engineFrame

\* shutil.copy2(file_path, working_file)
CoreStage ==
  /\ impl = "core" /\ pc = "stage"
  /\ \E io \in {"ok", "OSError"} :
       IF io # "ok" THEN Raised(io, "stage", cur)
       ELSE IF ~IsFile(files, cur.f) THEN Raised("FileNotFoundError", "stage", cur)
       ELSE GoOn([cur EXCEPT !.work = files[cur.f],
                             !.staged = files[cur.f], !.tmp_dir = TRUE,
                             !.events = Append(@, Event("stage", ""))], CoreAfter("stage"))
  /\ UNCHANGED <<calls, inputs, outputs, reports, log, files, cache, pending, dirty, disk>>
  /\ UNCHANGED engineFrame

\* one turn of the loop over the plugins: can_process, execute, accumulate
CoreRunPlugin ==
  /\ impl = "core" /\ pc = "plugins"
  /\ LET pl == cur.plugins[cur.k]
         after == IF cur.k = Len(cur.plugins) THEN CoreAfter("plugins") ELSE "plugins"
     IN IF ~CanProcess(pl, cur.f)
        THEN GoOn([cur EXCEPT !.k = @ + 1], after)
        ELSE \E run \in PluginRuns :
               IF run = "bad" THEN Raised("AttributeError", "plugin", cur)
               ELSE GoOn([cur EXCEPT
                            !.k = @ + 1,
                            !.work = Worked(PluginInput(cur), run),
                            !.seen = Append(@, [path |-> WorkingFile(cur.f),
                                                content |-> PluginInput(cur)]),
                            !.runs = Append(@, run),
                            !.summaries = Append(@, Execute(pl, run, WorkingFile(cur.f))),
                            !.events = Append(@, Event("plugin", pl.name))], after)
  /\ UNCHANGED <<calls, inputs, outputs, reports, log, files, cache, pending, dirty, disk>>
  /\ UNCHANGED engineFrame

\* _copy_to_output
CorePublish ==
  /\ impl = "core" /\ pc = "publish"
  /\ \E io \in {"ok", "OSError"} :
       IF io # "ok" THEN Raised(io, "publish", cur) /\ UNCHANGED outputs
       ELSE /\ outputs' = Put(outputs, CoreOutputName(cur.f, cur.run_id), cur.work)
            /\ GoOn([cur EXCEPT !.out = CoreOutputName(cur.f, cur.run_id),
                                !.events = Append(@, Event("publish", ""))],
                 CoreAfter("publish"))
  /\ UNCHANGED <<calls, inputs, reports, log, files, cache, pending, dirty, disk>>
  /\ UNCHANGED engineFrame

\* _build_report and _save_json_report
CoreSaveReport ==
  /\ impl = "core" /\ pc = "report"
  /\ \E io \in {"ok", "OSError"} :
       IF io # "ok" THEN Raised(io, "report", cur) /\ UNCHANGED reports
       ELSE /\ reports' = Put(reports, cur.out, BuildReport(cur))
            /\ GoOn([cur EXCEPT !.events = Append(@, Event("report", ""))], CoreAfter("report"))
  /\ UNCHANGED <<calls, inputs, outputs, log, files, cache, pending, dirty, disk>>
  /\ UNCHANGED engineFrame

\* faulty variant: the records are appended last plugin first
LogRecordsReversed(c, j) ==
  [i \in 1..j |-> CoreLogRecord(c, c.summaries[Len(c.summaries) + 1 - i])]

\* the log records of the first j plugin results
LogRecords(c, j) == [i \in 1..j |-> CoreLogRecord(c, c.summaries[i])]

\* the events of these appends
LogEvents(c, j) == [i \in 1..j |-> Event("log", c.summaries[i].name)]

\* _append_aggregated_log: one append per plugin result; an append that
\* raises ends the call with the earlier records written
CoreAppendLog ==
  /\ impl = "core" /\ pc = "log"
  /\ \E j \in 0..Len(cur.summaries) :
       /\ log' = log \o LogRecords(cur, j)
       /\ IF j < Len(cur.summaries)
          THEN Raised("OSError", "log", [cur EXCEPT !.events = @ \o LogEvents(cur, j)])
          ELSE GoOn(ExitScratch([cur EXCEPT !.events = @ \o LogEvents(cur, j)]),
                    CoreAfter("log"))
  /\ UNCHANGED <<calls, inputs, outputs, reports, files, cache, pending, dirty, disk>>
  /\ UNCHANGED engineFrame

\* after the scratch directory is gone: cache.mark_validated, or the return
\* of the report when the engine has no cache
CoreMark ==
  /\ impl = "core" /\ pc = "cache"
  /\ IF ~hasCache
     THEN Returned(BuildReport(cur), "processed", cur) /\ UNCHANGED <<cache, pending, dirty>>
     ELSE IF CoreMarkRaises(pending, files, cur.f)
     THEN Raised("FileNotFoundError", "mark", cur) /\ UNCHANGED <<cache, pending, dirty>>
     ELSE /\ cache' = CoreMarked(cache, pending, files, cur.f,
                                 TotalErrors(cur.summaries) > 0, Now(cur))
          /\ pending' = Del(pending, cur.f)
          /\ dirty' = TRUE
          /\ GoOn([cur EXCEPT !.events = Append(@, Event("mark", ""))], CoreAfter("cache"))
  /\ UNCHANGED <<calls, inputs, outputs, reports, log, files, disk>>
  /\ UNCHANGED engineFrame

\* cache.save() and the return of the report
CoreSave ==
  /\ impl = "core" /\ pc = "save"
  /\ \E io \in {"ok", "OSError"} :
       IF io # "ok" THEN Raised(io, "save", cur) /\ UNCHANGED <<disk, dirty>>
       ELSE /\ disk' = SavedDisk(cache, dirty, disk)
            /\ dirty' = FALSE
            /\ Returned(BuildReport(cur), "processed",
                        [cur EXCEPT !.events = Append(@, Event("save", ""))])
  /\ UNCHANGED <<calls, inputs, outputs, reports, log, files, cache, pending>>
  /\ UNCHANGED engineFrame

\* --------------------------------------------- pipeline PipelineEngine
\* <stem>_VALIDATED<suffix> in output_dir
PipeOutputName(f) == <<Stem(f), "_VALIDATED", Suffix(f)>>

\* the PluginResult a pipeline plugin's run() returns
PipeRunResult(id, run, wf) ==
  [plugin_id |-> id,
   errors |-> IF run = "warn" THEN <<[message |-> "blank line", file |-> wf]>> ELSE <<>>]

\* the report process_file returns for a processed file
PipeReport(c, p) ==
  [run_id |-> c.run_id, file_in |-> p, file_out |-> c.out, status |-> "processed",
   summary |-> [plugins_run |-> Len(c.summaries), total_errors |-> TotalErrors(c.summaries)],
   plugins |-> c.summaries]

\* the line process_file appends to the JSONL log
PipeLogRecord(c) ==
  [run_id |-> c.run_id, file_out |-> c.out, had_errors |-> TotalErrors(c.summaries) > 0]

\* process_file up to the scratch directory: exists, cache query, run id
PipeBegin ==
  /\ impl = "pipeline" /\ pc = "begin"
  /\ calls' = calls + 1
  /\ LET p == CurrentInput
         f == Resolve(p)
         c == [NoCall EXCEPT !.p = p, !.f = f, !.run_id = calls + 1, !.prior = prior[f],
                 !.pre = [file |-> files[f], cache |-> cache, disk |-> disk, log |-> log,
                         outputs |-> outputs]]
     IN IF PipeHasChangedRaises(files, f)
        THEN /\ Raised("FileNotFoundError", "missing", c)
             /\ UNCHANGED <<cache, dirty>>
        ELSE /\ cache' = PipeChecked(cache, files, f, Now(c))
             /\ dirty' = (dirty \/ PipeHasChangedValue(cache, files, f))
             /\ IF ~PipeHasChangedValue(cache, files, f)
                THEN Returned([run_id |-> calls + 1, file_in |-> p, status |-> "skipped"],
                              "skipped", c)
                ELSE GoOn(c, "stage")
  /\ UNCHANGED <<inputs, outputs, reports, log, files, pending, disk>>
  /\ UNCHANGED engineFrame

\* shutil.copy2(file_path, tmp_path)
PipeStage ==
  /\ impl = "pipeline" /\ pc = "stage"
  /\ \E io \in {"ok", "OSError"} :
       IF io # "ok" THEN Raised(io, "stage", cur)
       ELSE IF ~IsFile(files, cur.f) THEN Raised("FileNotFoundError", "stage", cur)
       ELSE GoOn([cur EXCEPT !.work = files[cur.f],
                             !.staged = files[cur.f], !.tmp_dir = TRUE,
                             !.events = Append(@, Event("stage", ""))], "order")
  /\ UNCHANGED <<calls, inputs, outputs, reports, log, files, cache, pending, dirty, disk>>
  /\ UNCHANGED engineFrame

\* plugin_manager.execute: ordered_plugins(tmp_path)
PipeOrder ==
  /\ impl = "pipeline" /\ pc = "order"
  /\ LET o == OrderedPlugins(registry, cur.f)
     IN IF o.raised # "" THEN Raised(o.raised, "order", cur)
        ELSE GoOn([cur EXCEPT !.plugins = o.order, !.k = 1],
                  IF o.order = <<>> THEN "publish" ELSE "plugins")
  /\ UNCHANGED <<calls, inputs, outputs, reports, log, files, cache, pending, dirty, disk>>
  /\ UNCHANGED engineFrame

\* plugin_manager.execute: one plugin.run(tmp_path, state), unguarded; the one
\* dict made before the loop is handed to every plugin, and each plugin is
\* taken to note its id in it
PipeRunPlugin ==
  /\ impl = "pipeline" /\ pc = "plugins"
  /\ LET id == cur.plugins[cur.k]
         after == IF cur.k = Len(cur.plugins) THEN "publish" ELSE "plugins"
     IN \E run \in PluginRuns :
          IF run = "raise" THEN Raised("RuntimeError", "plugin", cur)
          ELSE IF run = "bad" THEN Raised("PluginError", "plugin", cur)
          ELSE GoOn([cur EXCEPT
                       !.k = @ + 1,
                       !.work = Worked(PluginInput(cur), run),
                       !.seen = Append(@, [path |-> WorkingFile(cur.f),
                                           content |-> PluginInput(cur),
                                           state |-> cur.state]),
                       !.state = @ \cup {id},
                       !.runs = Append(@, run),
                       !.summaries = Append(@, PipeRunResult(id, run, WorkingFile(cur.f))),
                       !.events = Append(@, Event("plugin", id))], after)
  /\ UNCHANGED <<calls, inputs, outputs, reports, log, files, cache, pending, dirty, disk>>
  /\ UNCHANGED engineFrame

\* shutil.copy2(tmp_path, output_path)
PipePublish ==
  /\ impl = "pipeline" /\ pc = "publish"
  /\ \E io \in {"ok", "OSError"} :
       IF io # "ok" THEN Raised(io, "publish", cur) /\ UNCHANGED outputs
       ELSE /\ outputs' = Put(outputs, PipeOutputName(cur.f), cur.work)
            /\ GoOn(ExitScratch([cur EXCEPT !.out = PipeOutputName(cur.f),
                                            !.events = Append(@, Event("publish", ""))]),
                    "cache")
  /\ UNCHANGED <<calls, inputs, reports, log, files, cache, pending, dirty, disk>>
  /\ UNCHANGED engineFrame

\* cache.mark_validated(file_path, had_errors)
PipeMark ==
  /\ impl = "pipeline" /\ pc = "cache"
  /\ cache' = PipeMarked(cache, cur.f, TotalErrors(cur.summaries) > 0, Now(cur))
  /\ dirty' = TRUE
  /\ GoOn([cur EXCEPT !.events = Append(@, Event("mark", ""))], "save")
  /\ UNCHANGED <<calls, inputs, outputs, reports, log, files, pending, disk>>
  /\ UNCHANGED engineFrame

\* cache.save()
PipeSave ==
  /\ impl = "pipeline" /\ pc = "save"
  /\ \E io \in {"ok", "OSError"} :
       IF io # "ok" THEN Raised(io, "save", cur) /\ UNCHANGED <<disk, dirty>>
       ELSE /\ disk' = SavedDisk(cache, dirty, disk)
            /\ dirty' = FALSE
            /\ GoOn([cur EXCEPT !.events = Append(@, Event("save", ""))], "log")
  /\ UNCHANGED <<calls, inputs, outputs, reports, log, files, cache, pending>>
  /\ UNCHANGED engineFrame

\* jsonl_logger.append(log_record) and the return of the report
PipeLog ==
  /\ impl = "pipeline" /\ pc = "log"
  /\ \E io \in {"ok", "OSError"} :
       IF io # "ok" THEN Raised(io, "log", cur) /\ UNCHANGED log
       ELSE /\ log' = Append(log, PipeLogRecord(cur))
            /\ Returned(PipeReport(cur, cur.p), "processed",
                        [cur EXCEPT !.events = Append(@, Event("log", ""))])
  /\ UNCHANGED <<calls, inputs, outputs, reports, files, cache, pending, dirty, disk>>
  /\ UNCHANGED engineFrame

\* ------------------------------------------------------ the environment
\* Something outside the program rewrites or deletes an input file. A call
\* reads the file when it hashes it and when it stages it; a write after
\* the staging is seen by no read of the call, like one before the next call.
EnvModifyFile(f, c) ==
  /\ pc \in {"begin", "stage"}
  /\ c # files[f]
  /\ files' = [files EXCEPT ![f] = c]
  /\ prior' = [prior EXCEPT ![f] = ""]
  /\ cur' = IF pc \notin {"idle", "begin"} /\ cur.f = f
            THEN [cur EXCEPT !.clean = FALSE] ELSE cur
  /\ UNCHANGED <<pc, inputs, results, batch, calls, outputs, reports, log>>
  /\ UNCHANGED <<cache, pending, dirty, disk>>
  /\ UNCHANGED engineFrame

\* the registries the pipeline engine is run with: up to MaxPlugins of the
\* plugins a and b, each requiring at most one other name
EnginePluginObjects ==
  {pl \in PluginObjects :
     /\ pl.plugin_id \in {"a", "b"} /\ pl.applies = Files
     /\ pl.requires \in {<<>>, <<"a">>, <<"ghost">>}}
EngineRegistries ==
  UNION {{q \in [1..n -> EnginePluginObjects] :
            \A i, j \in 1..n : i # j => q[i].plugin_id # q[j].plugin_id}
         : n \in 0..MaxPlugins}

\* an engine over an empty cache, with its plugins installed
InitEngine ==
  /\ impl \in {"core", "pipeline"}
  /\ hasCache \in IF impl = "core" THEN BOOLEAN ELSE {TRUE}
  /\ corePlugins \in IF impl = "core" THEN CorePluginLists ELSE {<<>>}
  /\ registry \in IF impl = "pipeline" THEN EngineRegistries ELSE {<<>>}
  /\ files \in [Files -> Contents \cup {NoFile}]
  /\ files["/d/f1.txt"] = [regular |-> TRUE, bytes |-> 1]
  /\ files["/d/f2.py"] = [regular |-> TRUE, bytes |-> 1]
  /\ cache = EmptyDict /\ pending = EmptyDict /\ dirty = FALSE /\ disk = NoCacheFile
  /\ ret = Ret("init", "", "None") /\ chain = NoChain /\ touched = {}
  /\ ordRet = NoOrdRet
  /\ pc = "idle" /\ inputs = <<>> /\ results = <<>> /\ batch = NoBatch
  /\ calls = 0 /\ cur = NoCall
  /\ outputs = EmptyDict /\ reports = EmptyDict /\ log = <<>>
  /\ prior = [f \in Files |-> ""]
  /\ cachePath = "cache.json" /\ tmpFile = NoCacheFile /\ savePc = "idle"
  /\ saveRun = NoSaveRun
  /\ writer = "manager" /\ maxBytes = MaxBytes /\ logFile = <<>>
  /\ lastAppend = NoAppend /\ everRotated = FALSE
  /\ threads = [t \in Threads |-> IdleThread] /\ lock = "free" /\ order = <<>>
  /\ pluginsDir = <<>> /\ manager = NoManager /\ mgrRet = NoMgrRet
  /\ clock = 0 /\ stamp = NoStamp

\* the file_paths lists tried
EnginePaths == {"f1.txt", "/d/f2.py"}
Batches == UNION {[1..n -> EnginePaths] : n \in 0..MaxBatch}

NextEngine ==
  \/ \E paths \in Batches : StartBatch(paths)
  \/ CoreBegin
  \/ CoreStage
  \/ CoreRunPlugin
  \/ CorePublish
  \/ CoreSaveReport
  \/ CoreAppendLog
  \/ CoreMark
  \/ CoreSave
  \/ PipeBegin
  \/ PipeStage
  \/ PipeOrder
  \/ PipeRunPlugin
  \/ PipePublish
  \/ PipeMark
  \/ PipeSave
  \/ PipeLog
  \/ \E c \in Contents \cup {NoFile} : EnvModifyFile("/d/f1.txt", c)

\* ========================================================= the JSONL writers
\* JSONLManager (src/utils/jsonl_manager.py) and JSONLRotatingLogger
\* (src/pipeline/jsonl.py).  The log file is a sequence of bytes.  A record
\* is a JSON string of up to MaxRecord characters; "LS" stands for U+2028
\* LINE SEPARATOR, which UTF-8 encodes in three bytes and at which
\* str.splitlines() breaks a line.
MaxRecord == 2     \* longest record, in characters
MaxAppends == 3    \* append calls the threads make in one run
RecordChars == {"a", "\n", "LS"}
Records == UNION {[1..n -> RecordChars] : n \in 0..MaxRecord}

\* json.dumps of one character of a str: a newline is always escaped,
\* a non-ASCII character only under ensure_ascii
EscapeChar(c, ensure_ascii) ==
  CASE c = "\n" -> <<"\\", "n">>
    [] c = "LS" /\ ensure_ascii -> <<"\\", "u", "2", "0", "2", "8">>
    [] OTHER -> <<c>>

RECURSIVE EscapeAll(_, _)
EscapeAll(s, ensure_ascii) ==
  IF s = <<>> THEN <<>>
  ELSE EscapeChar(Head(s), ensure_ascii) \o EscapeAll(Tail(s), ensure_ascii)

\* json.dumps(record, ...): the text of one line
JsonDumps(record, ensure_ascii) ==
  <<"\"">> \o EscapeAll(record, ensure_ascii) \o <<"\"">>

\* str.encode("utf-8") / a text-mode write with encoding="utf-8"
RECURSIVE Encode(_)
Encode(s) ==
  IF s = <<>> THEN <<>>
  ELSE (IF Head(s) = "LS" THEN <<"xE2", "x80", "xA8">> ELSE <<Head(s)>>) \o Encode(Tail(s))

\* bytes.decode("utf-8", errors="ignore"); on the well-formed files of the
\* model read_text("utf-8") gives the same text
RECURSIVE Decode(_)
Decode(b) ==
  IF b = <<>> THEN <<>>
  ELSE IF Len(b) >= 3 /\ SubSeq(b, 1, 3) = <<"xE2", "x80", "xA8">>
       THEN <<"LS">> \o Decode(SubSeq(b, 4, Len(b)))
  ELSE IF Head(b) \in {"xE2", "x80", "xA8"} THEN Decode(Tail(b))
  ELSE <<Head(b)>> \o Decode(Tail(b))

\* the characters of the model str.splitlines() breaks at
LineBreaks == {"\n", "LS"}

RECURSIVE SplitAt(_, _, _, _)
SplitAt(text, breaks, line, out) ==
  IF text = <<>> THEN (IF line = <<>> THEN out ELSE Append(out, line))
  ELSE IF Head(text) \in breaks THEN SplitAt(Tail(text), breaks, <<>>, Append(out, line))
  ELSE SplitAt(Tail(text), breaks, Append(line, Head(text)), out)

\* str.splitlines()
SplitLines(text) == SplitAt(text, LineBreaks, <<>>, <<>>)

\* faulty variant: the newline that ends a line is not counted
LineSizeNoNewline(line) == Len(Encode(line))

\* len(line.encode("utf-8")) + 1
LineSize(line) == Len(Encode(line)) + 1

\* for line in reversed(lines): stop at the first line that does not fit
RECURSIVE KeepFrom(_, _, _, _, _)
KeepFrom(lines, i, total, kept, max) ==
  IF i = 0 \/ total + LineSize(lines[i]) > max THEN kept
  ELSE KeepFrom(lines, i - 1, total + LineSize(lines[i]), <<lines[i]>> \o kept, max)

KeepNewest(lines, max) == KeepFrom(lines, Len(lines), 0, <<>>, max)

\* "\n".join(kept)
RECURSIVE JoinNewline(_)
JoinNewline(lines) ==
  IF lines = <<>> THEN <<>>
  ELSE IF Len(lines) = 1 THEN lines[1]
  ELSE lines[1] \o <<"\n">> \o JoinNewline(Tail(lines))

\* JSONLRotatingLogger._rotate_if_needed past the size test: the file the
\* text read becomes
RotatingRewritten(file, max) ==
  LET kept == KeepNewest(SplitLines(Decode(file)), max)
      data == JoinNewline(kept)
  IN Encode(IF data # <<>> THEN data \o <<"\n">> ELSE data)

\* JSONLRotatingLogger._rotate_if_needed: the file it leaves
RotatingRotated(file, max) ==
  IF Len(file) <= max THEN file ELSE RotatingRewritten(file, max)

\* JSONLManager._tail_lines reads the file backwards in chunks of this size
ChunkSize == 8192
Smaller(a, b) == IF a < b THEN a ELSE b

\* the while loop of _tail_lines: the position it stops reading at
RECURSIVE ReadBackPos(_, _, _)
ReadBackPos(pos, buffered, target) ==
  IF pos > 0 /\ buffered < target
  THEN ReadBackPos(pos - Smaller(ChunkSize, pos), buffered + Smaller(ChunkSize, pos), target)
  ELSE pos

\* the bytes _tail_lines decodes: the window read, less a partial first line
TailWindow(file, max) ==
  LET pos == ReadBackPos(Len(file), 0, max * 2)
      data == SubSeq(file, pos + 1, Len(file))
      newlines == {i \in 1..Len(data) : data[i] = "\n"}
      newline_index == CHOOSE i \in newlines : \A j \in newlines : i <= j
  IN IF pos = 0 THEN data
     ELSE IF newlines # {} THEN SubSeq(data, newline_index + 1, Len(data))
     ELSE <<>>

\* the list `kept` _tail_lines builds, oldest line first
TailKept(file, max) == KeepNewest(SplitLines(Decode(TailWindow(file, max))), max)

\* faulty variant: the lines of `kept` are yielded
TailLinesReturned(file, max) ==
  IF Len(file) <= max THEN SplitLines(Decode(file)) ELSE TailKept(file, max)

\* list(self._tail_lines()): _tail_lines is a generator function (it has a
\* yield), so its final `return reversed(kept)` ends the iteration and
\* yields no line; only the branch for a file within max_bytes yields
TailLines(file, max) ==
  IF Len(file) <= max THEN SplitLines(Decode(file))
  ELSE LET kept == TailKept(file, max) IN SubSeq(kept, 1, 0)

\* for line in keep_lines: handle.write(f"{line}\n")
RECURSIVE WriteLines(_)
WriteLines(lines) ==
  IF lines = <<>> THEN <<>>
  ELSE Encode(Head(lines) \o <<"\n">>) \o WriteLines(Tail(lines))

\* JSONLManager._rotate_if_needed: the file it leaves
ManagerRotated(file, max) ==
  IF Len(file) <= max THEN file ELSE WriteLines(TailLines(file, max))

\* open("a") ; write(line + "\n")
Written(file, line) == file \o Encode(line \o <<"\n">>)

Appended(line, pre) ==
  [line |-> line, pre |-> pre, rotated |-> Len(Written(pre, line)) > maxBytes, done |-> TRUE]

\* JSONLManager.append(record), called by one thread
ManagerAppend(record) ==
  /\ writer = "manager"
  /\ LET line == JsonDumps(record, FALSE)
     IN /\ logFile' = ManagerRotated(Written(logFile, line), maxBytes)
        /\ lastAppend' = Appended(line, logFile)
        /\ everRotated' = (everRotated \/ Len(Written(logFile, line)) > maxBytes)
  /\ UNCHANGED <<writer, maxBytes, threads, lock, order>>
  /\ UNCHANGED <<cacheVars, orderVars, engineVars, saveVars>>

\* JSONLRotatingLogger.append(record)
RotatingAppend(record) ==
  /\ writer = "rotating"
  /\ LET line == JsonDumps(record, TRUE)
     IN /\ logFile' = RotatingRotated(Written(logFile, line), maxBytes)
        /\ lastAppend' = Appended(line, logFile)
        /\ everRotated' = (everRotated \/ Len(Written(logFile, line)) > maxBytes)
  /\ UNCHANGED <<writer, maxBytes, threads, lock, order>>
  /\ UNCHANGED <<cacheVars, orderVars, engineVars, saveVars>>

\* a log writer over a log file that does not exist yet
InitLog ==
  /\ writer \in {"manager", "rotating"}
  /\ maxBytes \in {MinBytes, MaxBytes}
  /\ logFile = <<>> /\ lastAppend = NoAppend /\ everRotated = FALSE
  /\ threads = [t \in Threads |-> IdleThread] /\ lock = "free" /\ order = <<>>
  /\ pluginsDir = <<>> /\ manager = NoManager /\ mgrRet = NoMgrRet
  /\ clock = 0 /\ stamp = NoStamp
  /\ cachePath = "cache.json" /\ tmpFile = NoCacheFile /\ savePc = "idle"
  /\ saveRun = NoSaveRun
  /\ registry = <<>> /\ ordRet = NoOrdRet
  /\ impl = "core" /\ files = [f \in Files |-> NoFile] /\ cache = EmptyDict
  /\ pending = EmptyDict /\ dirty = FALSE /\ disk = NoCacheFile
  /\ ret = Ret("init", "", "None") /\ chain = NoChain /\ touched = {}
  /\ hasCache = TRUE /\ corePlugins = <<>> /\ pc = "idle" /\ inputs = <<>>
  /\ results = <<>> /\ batch = NoBatch /\ calls = 0 /\ cur = NoCall
  /\ outputs = EmptyDict /\ reports = EmptyDict /\ log = <<>>
  /\ prior = [f \in Files |-> ""]

NextLog ==
  \/ \E record \in Records : ManagerAppend(record)
  \/ \E record \in Records : RotatingAppend(record)

\* ------------------------------------ JSONLManager.append called by threads
\* line 26-27: the line is built before the lock is taken
ThreadDumps(t, record) ==
  /\ threads[t].pc = "idle"
  /\ Len(order) + Cardinality({u \in Threads : threads[u].pc \in {"dumped", "locked"}}) < MaxAppends
  /\ threads' = [threads EXCEPT ![t] = [pc |-> "dumped", line |-> JsonDumps(record, FALSE)]]
  /\ UNCHANGED <<writer, maxBytes, logFile, lastAppend, everRotated, lock, order>>
  /\ UNCHANGED <<cacheVars, orderVars, engineVars, saveVars>>

\* line 29: with self._lock
ThreadAcquire(t) ==
  /\ threads[t].pc = "dumped"
  /\ lock = "free"
  /\ lock' = t
  /\ threads' = [threads EXCEPT ![t].pc = "locked"]
  /\ UNCHANGED <<writer, maxBytes, logFile, lastAppend, everRotated, order>>
  /\ UNCHANGED <<cacheVars, orderVars, engineVars, saveVars>>

\* line 30-32: the line is appended to the file
ThreadWrite(t) ==
  /\ threads[t].pc = "locked"
  /\ logFile' = Written(logFile, threads[t].line)
  /\ order' = Append(order, threads[t].line)
  /\ threads' = [threads EXCEPT ![t].pc = "written"]
  /\ UNCHANGED <<writer, maxBytes, lastAppend, everRotated, lock>>
  /\ UNCHANGED <<cacheVars, orderVars, engineVars, saveVars>>

\* line 33: _rotate_if_needed, then the lock is released
ThreadRotate(t) ==
  /\ threads[t].pc = "written"
  /\ logFile' = ManagerRotated(logFile, maxBytes)
  /\ everRotated' = (everRotated \/ Len(logFile) > maxBytes)
  /\ lock' = "free"
  /\ threads' = [threads EXCEPT ![t] = IdleThread]
  /\ UNCHANGED <<writer, maxBytes, lastAppend, order>>
  /\ UNCHANGED <<cacheVars, orderVars, engineVars, saveVars>>

\* one JSONLManager shared by the threads
InitLogThreads ==
  /\ writer = "manager"
  /\ maxBytes \in {MinBytes, MaxBytes}
  /\ logFile = <<>> /\ lastAppend = NoAppend /\ everRotated = FALSE
  /\ threads = [t \in Threads |-> IdleThread] /\ lock = "free" /\ order = <<>>
  /\ pluginsDir = <<>> /\ manager = NoManager /\ mgrRet = NoMgrRet
  /\ clock = 0 /\ stamp = NoStamp
  /\ cachePath = "cache.json" /\ tmpFile = NoCacheFile /\ savePc = "idle"
  /\ saveRun = NoSaveRun
  /\ registry = <<>> /\ ordRet = NoOrdRet
  /\ impl = "core" /\ files = [f \in Files |-> NoFile] /\ cache = EmptyDict
  /\ pending = EmptyDict /\ dirty = FALSE /\ disk = NoCacheFile
  /\ ret = Ret("init", "", "None") /\ chain = NoChain /\ touched = {}
  /\ hasCache = TRUE /\ corePlugins = <<>> /\ pc = "idle" /\ inputs = <<>>
  /\ results = <<>> /\ batch = NoBatch /\ calls = 0 /\ cur = NoCall
  /\ outputs = EmptyDict /\ reports = EmptyDict /\ log = <<>>
  /\ prior = [f \in Files |-> ""]

NextLogThreads ==
  \/ \E t \in Threads, record \in Records : ThreadDumps(t, record)
  \/ \E t \in Threads : ThreadAcquire(t)
  \/ \E t \in Threads : ThreadWrite(t)
  \/ \E t \in Threads : ThreadRotate(t)

\* ================================================== save(), step by step
\* FileHashCache.save() of both caches as the sequence of file operations it
\* performs, with the process free to die between any two of them.
\* The text json.dump writes for a mapping is one JSON object; every strict
\* prefix of it (the empty file included) fails to parse.
PartialFile == [kind |-> "partial"]

CachePathNames == {"cache.json", "cache.tmp"}

\* core: tempfile.mkstemp creates a new file under a fresh name
\* pipeline: self.cache_path.with_suffix(".tmp")
TmpIsCacheFile ==
  IF impl = "core" THEN FALSE ELSE cachePath = "cache.tmp"

SaveEntries ==
  {[hash |-> <<"sha256", n>>, last_validated |-> 1, had_errors |-> e] :
     n \in 1..MaxContent, e \in BOOLEAN}

\* the mappings a cache may hold when save() is called
SaveCaches == UNION {[fs -> SaveEntries] : fs \in SUBSET Files}

Started(c, d) == [pre |-> d, new |-> Serialize(c), started |-> TRUE, crashed |-> FALSE]

\* save() on a cache that is not dirty returns at once
SaveClean ==
  /\ savePc = "idle" /\ ~dirty
  /\ saveRun' = [pre |-> disk, new |-> disk, started |-> TRUE, crashed |-> FALSE]
  /\ UNCHANGED <<cachePath, tmpFile, savePc>>
  /\ UNCHANGED <<cacheVars, orderVars, engineVars, logVars>>

\* core line 113-117: the temporary file is created, empty
\* pipeline line 82-83: write_text opens tmp_path for writing, truncating it
SaveOpen ==
  /\ savePc = "idle" /\ dirty
  /\ savePc' = "dump"
  /\ saveRun' = Started(cache, disk)
  /\ tmpFile' = IF TmpIsCacheFile THEN tmpFile ELSE PartialFile
  /\ disk' = IF TmpIsCacheFile THEN PartialFile ELSE disk
  /\ UNCHANGED cachePath
  /\ UNCHANGED <<impl, files, cache, pending, dirty, ret, chain, touched>>
  /\ UNCHANGED <<orderVars, engineVars, logVars>>

\* core line 119-122: json.dump, flush, fsync; pipeline line 83: the text is
\* written and the file closed
SaveDump ==
  /\ savePc = "dump"
  /\ savePc' = "replace"
  /\ tmpFile' = IF TmpIsCacheFile THEN tmpFile ELSE Serialize(cache)
  /\ disk' = IF TmpIsCacheFile THEN Serialize(cache) ELSE disk
  /\ UNCHANGED <<cachePath, saveRun>>
  /\ UNCHANGED <<impl, files, cache, pending, dirty, ret, chain, touched>>
  /\ UNCHANGED <<orderVars, engineVars, logVars>>

\* os.replace(tmp_path, cache_file) ; self._dirty = False
SaveReplace ==
  /\ savePc = "replace"
  /\ savePc' = "idle"
  /\ disk' = IF TmpIsCacheFile THEN disk ELSE tmpFile
  /\ tmpFile' = NoCacheFile
  /\ dirty' = FALSE
  /\ UNCHANGED <<cachePath, saveRun>>
  /\ UNCHANGED <<impl, files, cache, pending, ret, chain, touched>>
  /\ UNCHANGED <<orderVars, engineVars, logVars>>

\* the write or the rename raises OSError: core removes the temporary file
\* (finally, line 128-133), pipeline leaves it; the exception propagates
SaveRaises ==
  /\ savePc \in {"dump", "replace"}
  /\ savePc' = "idle"
  /\ tmpFile' = IF impl = "core" THEN NoCacheFile ELSE tmpFile
  /\ UNCHANGED <<cachePath, saveRun>>
  /\ UNCHANGED <<cacheVars, orderVars, engineVars, logVars>>

\* the process dies inside save(); a new process builds FileHashCache(path)
\* over whatever the cache path holds
SaveCrash ==
  /\ savePc \in {"dump", "replace"}
  /\ savePc' = "idle"
  /\ cache' = Loaded(disk)
  /\ pending' = EmptyDict
  /\ dirty' = FALSE
  /\ saveRun' = [saveRun EXCEPT !.crashed = TRUE]
  /\ UNCHANGED <<cachePath, tmpFile>>
  /\ UNCHANGED <<impl, files, disk, ret, chain, touched>>
  /\ UNCHANGED <<orderVars, engineVars, logVars>>

\* a cache holding some mapping, over a cache file absent or left by an
\* earlier save
InitSave ==
  /\ impl \in {"core", "pipeline"}
  /\ cachePath \in CachePathNames
  /\ cache \in SaveCaches
  /\ disk \in {NoCacheFile, Serialize(Put(EmptyDict, "/d/f2.py", OldEntry))}
  /\ dirty \in BOOLEAN
  /\ tmpFile = NoCacheFile /\ savePc = "idle" /\ saveRun = NoSaveRun
  /\ files = [f \in Files |-> NoFile] /\ pending = EmptyDict
  /\ ret = Ret("init", "", "None") /\ chain = NoChain /\ touched = {}
  /\ registry = <<>> /\ ordRet = NoOrdRet
  /\ hasCache = TRUE /\ corePlugins = <<>> /\ pc = "idle" /\ inputs = <<>>
  /\ results = <<>> /\ batch = NoBatch /\ calls = 0 /\ cur = NoCall
  /\ outputs = EmptyDict /\ reports = EmptyDict /\ log = <<>>
  /\ prior = [f \in Files |-> ""]
  /\ writer = "manager" /\ maxBytes = MaxBytes /\ logFile = <<>>
  /\ lastAppend = NoAppend /\ everRotated = FALSE
  /\ threads = [t \in Threads |-> IdleThread] /\ lock = "free" /\ order = <<>>
  /\ pluginsDir = <<>> /\ manager = NoManager /\ mgrRet = NoMgrRet
  /\ clock = 0 /\ stamp = NoStamp

NextSave ==
  \/ SaveClean
  \/ SaveOpen
  \/ SaveDump
  \/ SaveReplace
  \/ SaveRaises
  \/ SaveCrash

\* ================================================ loading a cache file
\* cache files as they may be found: absent, not JSON, not UTF-8, JSON whose
\* top level is no object, and objects whose payloads are well formed or not
JList == [t |-> "list"]
HashValues == {JStr(<<"sha256", 1>>), JNull}
StampValues == {JStr(1), JNull}
ErrorValues == {JBool(TRUE), JBool(FALSE), JNum(1)}
Payloads ==
  {JList}
  \cup {JObj([k \in {"hash", "last_validated", "had_errors"} |->
               CASE k = "hash" -> h [] k = "last_validated" -> s [] OTHER -> e]) :
          h \in HashValues, s \in StampValues, e \in ErrorValues}
  \cup {JObj([k \in {"hash", "last_validated"} |-> IF k = "hash" THEN h ELSE s]) :
          h \in HashValues, s \in StampValues}
CacheFiles ==
  {NoCacheFile, [kind |-> "text"], [kind |-> "binary"],
   [kind |-> "json", top |-> JList], [kind |-> "json", top |-> JNull]}
  \cup {[kind |-> "json", top |-> JObj(m)] :
          m \in UNION {[K -> Payloads] : K \in SUBSET Files}}

\* FileHashCache(cache_file): __init__ runs _load on whatever the file holds
Construct ==
  /\ ret.op = "init"
  /\ LET exc == IF impl = "core" THEN CoreLoadRaises(disk) ELSE PipeLoadRaises(disk)
     IN IF exc # ""
        THEN ret' = Ret("construct", "", exc) /\ UNCHANGED cache
        ELSE ret' = Ret("construct", "", "None") /\ cache' = Loaded(disk)
  /\ UNCHANGED <<impl, files, pending, dirty, disk, chain, touched>>
  /\ UNCHANGED <<orderVars, engineVars, saveVars, logVars>>

InitLoad ==
  /\ impl \in {"core", "pipeline"}
  /\ disk \in CacheFiles
  /\ cache = EmptyDict /\ pending = EmptyDict /\ dirty = FALSE
  /\ files = [f \in Files |-> NoFile]
  /\ ret = Ret("init", "", "None") /\ chain = NoChain /\ touched = {}
  /\ registry = <<>> /\ ordRet = NoOrdRet
  /\ hasCache = TRUE /\ corePlugins = <<>> /\ pc = "idle" /\ inputs = <<>>
  /\ results = <<>> /\ batch = NoBatch /\ calls = 0 /\ cur = NoCall
  /\ outputs = EmptyDict /\ reports = EmptyDict /\ log = <<>>
  /\ prior = [f \in Files |-> ""]
  /\ cachePath = "cache.json" /\ tmpFile = NoCacheFile /\ savePc = "idle"
  /\ saveRun = NoSaveRun
  /\ writer = "manager" /\ maxBytes = MaxBytes /\ logFile = <<>>
  /\ lastAppend = NoAppend /\ everRotated = FALSE
  /\ threads = [t \in Threads |-> IdleThread] /\ lock = "free" /\ order = <<>>
  /\ pluginsDir = <<>> /\ manager = NoManager /\ mgrRet = NoMgrRet
  /\ clock = 0 /\ stamp = NoStamp

NextLoad ==
  \/ Construct

\* ======================================================== specifications
SpecCache == InitCache /\ [][NextCache]_vars

SpecOrder == InitOrder /\ [][NextOrder]_vars

SpecEngine == InitEngine /\ [][NextEngine]_vars

SpecLog == InitLog /\ [][NextLog]_vars

SpecSave == InitSave /\ [][NextSave]_vars

SpecLogThreads == InitLogThreads /\ [][NextLogThreads]_vars

SpecLoad == InitLoad /\ [][NextLoad]_vars

\* ------------------------------------------------------------------ C2
\* C2 as stated: in the core cache, has_changed(F) right after
\* mark_validated(F, e) ; save() ; reload, with F not modified after
\* mark_validated, returns False whatever calls and file modifications
\* came before.
C2_Original ==
  (impl = "core" /\ chain.stage = 4) => ret.out = "False"

\* C2 amended: the same, when F was also not modified between the
\* has_changed(F) that staged the digest mark_validated used and mark_validated.
C2_ReloadUnchanged ==
  (impl = "core" /\ chain.stage = 4 /\ chain.clean) => ret.out = "False"

C2_Witness ==
  /\ impl = "core" /\ chain.stage = 4 /\ chain.clean
  /\ ret.op = "has_changed" /\ ret.out = "False"
  /\ "/d/f1.txt" \in DOMAIN cache /\ ~dirty

\* ------------------------------------------------------------------ C3
\* C3: core has_changed(F) raises FileNotFoundError when F is not a regular
\* file, and otherwise returns True exactly when the cache has no entry for
\* the resolved path or the stored hash is not the digest of F's content;
\* so a recorded content replaced by a different one is reported as changed.
C3_HasChangedIff ==
  (impl = "core" /\ ret.op = "has_changed") =>
    LET f == Resolve(ret.path) IN
    IF ~files[f].regular THEN ret.out = "FileNotFoundError"
    ELSE /\ ret.out \in {"True", "False"}
         /\ (ret.out = "True") <=>
              (f \notin DOMAIN cache \/ cache[f].hash # <<"sha256", files[f].bytes>>)
         /\ \A n \in 1..MaxContent :
              (f \in DOMAIN cache /\ cache[f].hash = <<"sha256", n>> /\ files[f].bytes # n)
                => ret.out = "True"

C3_Witness ==
  /\ impl = "core" /\ ret.op = "has_changed" /\ ret.out = "True"
  /\ ret.path = "f1.txt"
  /\ "/d/f1.txt" \in DOMAIN cache
  /\ cache["/d/f1.txt"].hash = <<"sha256", 1>>
  /\ files["/d/f1.txt"] = [regular |-> TRUE, bytes |-> 2]

\* ------------------------------------------------- ordering: claim helpers
\* ids of the registered plugins that apply to file f
AppIds(reg, f) == {reg[i].plugin_id : i \in {j \in 1..Len(reg) : f \in reg[j].applies}}

PluginOf(reg, id) == reg[CHOOSE i \in 1..Len(reg) : reg[i].plugin_id = id]

\* a must run before b: both apply to f and b.requires names a
MustPrecede(reg, f, a, b) ==
  /\ a \in AppIds(reg, f) /\ b \in AppIds(reg, f)
  /\ a \in Range(PluginOf(reg, b).requires)

RECURSIVE PrecedesWithin(_, _, _, _, _)
PrecedesWithin(reg, f, a, b, k) ==
  IF k = 0 THEN FALSE
  ELSE \/ MustPrecede(reg, f, a, b)
       \/ \E m \in AppIds(reg, f) : MustPrecede(reg, f, a, m) /\ PrecedesWithin(reg, f, m, b, k - 1)

\* the requires-edges among the plugins applicable to f contain a cycle
AppCycle(reg, f) ==
  \E a \in AppIds(reg, f) : PrecedesWithin(reg, f, a, a, Cardinality(AppIds(reg, f)))

Occurrences(q, x) == Cardinality({i \in 1..Len(q) : q[i] = x})
Before(q, a, b) == \E i, j \in 1..Len(q) : i < j /\ q[i] = a /\ q[j] = b

\* ------------------------------------------------------------------ C4
\* C4 as stated: whenever the requires-edges among the plugins applicable
\* to the file are acyclic, ordered_plugins returns an order in which every
\* applicable plugin appears exactly once and after each of its applicable
\* prerequisites.
C4_TopologicalSort ==
  (ordRet.op = "ordered_plugins" /\ ~AppCycle(registry, ordRet.file)) =>
    /\ ordRet.raised = ""
    /\ \A b \in AppIds(registry, ordRet.file) :
         /\ Occurrences(ordRet.order, b) = 1
         /\ \A a \in AppIds(registry, ordRet.file) :
              MustPrecede(registry, ordRet.file, a, b) => Before(ordRet.order, a, b)

\* ------------------------------------------------------------------ C5
\* C5 as stated: when the requires-edges among the applicable plugins
\* contain a cycle, ordered_plugins raises PluginError and returns no order;
\* and no order it returns puts a plugin before one of that plugin's own
\* applicable prerequisites.
C5_CycleRaises ==
  ordRet.op = "ordered_plugins" =>
    /\ AppCycle(registry, ordRet.file) =>
         (ordRet.raised = "PluginError" /\ ordRet.order = <<>>)
    /\ ordRet.raised = "" =>
         \A b \in Range(ordRet.order), a \in AppIds(registry, ordRet.file) :
           a \in Range(PluginOf(registry, b).requires) => ~Before(ordRet.order, b, a)

\* ------------------------------------------------- engines: claim helpers
\* a process_file call has been started
CallStarted == cur.p # ""

\* at the start of the call the cache held the digest of the file's content
DigestStored ==
  /\ CallStarted /\ hasCache /\ cur.pre.file.regular
  /\ cur.f \in DOMAIN cur.pre.cache
  /\ cur.pre.cache[cur.f].hash = <<"sha256", cur.pre.file.bytes>>

\* the call returned "skipped" and did nothing else
SkippedCleanly ==
  /\ cur.outcome = "skipped"
  /\ cur.record.status = "skipped"
  /\ cur.events = <<>> /\ cur.runs = <<>>
  /\ outputs = cur.pre.outputs
  /\ log = cur.pre.log
  /\ cache = cur.pre.cache

StatusOf(r) == IF "status" \in DOMAIN r THEN r.status ELSE "report"

IsPrefix(a, b) == Len(a) <= Len(b) /\ \A i \in 1..Len(a) : a[i] = b[i]

\* ------------------------------------------------------------------ C1
\* C1 as stated: in both engines, process_file on a file whose digest is
\* the hash stored for its resolved path returns "skipped", having run no
\* plugin, published nothing, logged nothing and left the cache mapping
\* alone; and a call on an input that an earlier call of the same engine
\* already handled, the input unchanged since, returns "skipped".
C1_Original ==
  /\ DigestStored => SkippedCleanly
  /\ (CallStarted /\ cur.prior # "") => cur.outcome = "skipped"

\* C1 amended: the same, the second call returning "skipped" when the engine
\* has a cache and the earlier call returned a processed report or "skipped".
C1_SkipUnchanged ==
  /\ DigestStored => SkippedCleanly
  /\ (CallStarted /\ hasCache /\ cur.prior \in {"processed", "skipped"})
       => SkippedCleanly

C1_Witness ==
  /\ DigestStored /\ cur.outcome = "skipped" /\ cur.prior = "processed"
  /\ log # <<>> /\ outputs # EmptyDict /\ calls = 2

\* ------------------------------------------------------------------ C6
\* C6: in the core engine a plugin whose run raises yields a PluginResult
\* with success false and exactly one ValidationError of severity "error"
\* carrying the fault message and the path the plugin was run on; every
\* later plugin that can process the file is still executed, and the
\* report holds the failed and the later results.
C6_FaultContained ==
  impl = "core" =>
    /\ Len(cur.summaries) = Len(cur.runs)
    /\ \A i \in 1..Len(cur.runs) :
         cur.runs[i] = "raise" =>
           /\ cur.summaries[i].success = FALSE
           /\ Len(cur.summaries[i].errors) = 1
           /\ cur.summaries[i].errors[1].severity = "error"
           /\ cur.summaries[i].errors[1].message = FaultMessage
           /\ cur.summaries[i].errors[1].file = WorkingFile(cur.f)
    /\ (cur.out # <<>> \/ cur.cause = "publish") =>
         [i \in 1..Len(cur.summaries) |-> cur.summaries[i].name]
           = [i \in 1..Len(SelectSeq(cur.plugins, LAMBDA pl : CanProcess(pl, cur.f))) |->
                SelectSeq(cur.plugins, LAMBDA pl : CanProcess(pl, cur.f))[i].name]
    /\ cur.outcome = "processed" =>
         /\ Len(cur.record.plugin_results) = Len(cur.summaries)
         /\ \A i \in 1..Len(cur.summaries) :
              /\ cur.record.plugin_results[i].name = cur.summaries[i].name
              /\ cur.record.plugin_results[i].success = cur.summaries[i].success
              /\ cur.record.plugin_results[i].errors = cur.summaries[i].errors

C6_Witness ==
  /\ impl = "core" /\ cur.outcome = "processed"
  /\ cur.runs = <<"raise", "ok">>
  /\ ~cur.record.plugin_results[1].success
  /\ cur.record.plugin_results[2].success

\* the path a record of process_files names
RecordFile(r) == IF "file" \in DOMAIN r THEN r.file ELSE r.file_in

\* the record of the call that just ended is the last one collected
LastRecorded == pc \in {"begin", "idle"} /\ results # <<>> /\ CallStarted

\* ------------------------------------------------------------------ C7
\* C7: core process_files never lets an exception of process_file escape:
\* the records collected are one per path handled, in input order; a call
\* that raised is recorded as {file, status "failed"}; the loop goes on to
\* the next path and the list returned has one record per input path.
C7_BatchNeverAborts ==
  impl = "core" =>
    /\ batch.ended # "raised"
    /\ Len(results) <= Len(inputs)
    /\ \A i \in 1..Len(results) :
         RecordFile(results[i]) \in {inputs[i], Resolve(inputs[i])}
    /\ batch.ended = "returned" => (pc = "idle" /\ Len(results) = Len(inputs))
    /\ batch.ended = "running" => (pc # "idle" /\ Len(results) < Len(inputs))
    /\ (LastRecorded /\ cur.outcome = "raised") =>
         /\ results[Len(results)] = [file |-> cur.p, status |-> "failed"]
         /\ Len(results) < Len(inputs) => (pc = "begin" /\ batch.ended = "running")

C7_Witness ==
  /\ impl = "core" /\ batch.ended = "returned" /\ Len(results) = 2
  /\ results[1] = [file |-> "f1.txt", status |-> "failed"]
  /\ StatusOf(results[2]) = "report"
  /\ cur.outcome = "processed"

\* ------------------------------------------------------------------ C8
\* C8 as stated: pipeline process_files does not let the failure of one
\* file escape: the batch is never ended by an exception, and a call that
\* failed leaves a record in the list.
C8_PipelineBatchNeverAborts ==
  impl = "pipeline" =>
    /\ batch.ended # "raised"
    /\ (LastRecorded /\ cur.outcome = "raised") => Len(results) = calls

\* ------------------------------------------------------------------ C9
\* the steps of a complete core pass over the file, in the order claimed
ProcessablePlugins(c) == SelectSeq(c.plugins, LAMBDA pl : CanProcess(pl, c.f))
PassOrder(c) ==
  <<Event("stage", "")>>
  \o [i \in 1..Len(ProcessablePlugins(c)) |-> Event("plugin", ProcessablePlugins(c)[i].name)]
  \o <<Event("publish", ""), Event("report", "")>>
  \o [i \in 1..Len(ProcessablePlugins(c)) |-> Event("log", ProcessablePlugins(c)[i].name)]
  \o <<Event("mark", ""), Event("save", "")>>

\* C9: the steps of core process_file happen in the order stage, plugins,
\* publish, report, log records, mark_validated, save; and the cache (in
\* memory or on disk) differs from what it was when the call began only
\* once the output is published and every log record of the file appended.
C9_StepOrder ==
  (impl = "core" /\ CallStarted) =>
    /\ IsPrefix(cur.events, PassOrder(cur))
    /\ (cache # cur.pre.cache \/ disk # cur.pre.disk) =>
         /\ cur.out \in DOMAIN outputs
         /\ cur.out \in DOMAIN reports
         /\ Len(cur.summaries) = Len(ProcessablePlugins(cur))
         /\ log = cur.pre.log \o LogRecords(cur, Len(cur.summaries))
         /\ cache = CoreMarked(cur.pre.cache, EmptyDict, [x \in Files |-> cur.pre.file], cur.f,
                               TotalErrors(cur.summaries) > 0, cur.run_id)

C9_Witness ==
  /\ impl = "core" /\ cur.outcome = "processed" /\ hasCache
  /\ Len(cur.events) = 9
  /\ cur.f \in DOMAIN cache /\ disk = Serialize(cache)
  /\ Len(log) = 2

\* ------------------------------------------------------------------ C10
\* C10: when staging or publishing fails in the core engine, the cache in
\* memory and the cache file are as they were when the call began, no log
\* record was appended, and process_files records {file, status "failed"};
\* the next call on the same unchanged file is not skipped.
C10_FailureLeavesCache ==
  impl = "core" =>
    /\ (cur.outcome = "raised" /\ cur.cause \in {"stage", "publish"}) =>
         /\ cache = cur.pre.cache
         /\ disk = cur.pre.disk
         /\ log = cur.pre.log
         /\ LastRecorded => results[Len(results)] = [file |-> cur.p, status |-> "failed"]
    /\ (CallStarted /\ cur.prior \in {"stage", "publish"}) => cur.outcome # "skipped"

C10_Witness ==
  /\ impl = "core" /\ hasCache
  /\ cur.outcome = "raised" /\ cur.cause = "publish" /\ cur.prior = "stage"
  /\ cur.summaries # <<>> /\ cache = cur.pre.cache /\ log = <<>>
  /\ LastRecorded /\ results[Len(results)] = [file |-> cur.p, status |-> "failed"]

\* ------------------------------------------------------------------ C11
\* C11: at every point during save() of either cache, a crash between the
\* temporary write and the rename included, the file at the cache path is
\* the complete previous content (absent if there was none) or the complete
\* new content, never a partial write; a cache built at any such point
\* loads the pre-save or the post-save mapping.
C11_AtomicSave ==
  saveRun.started =>
    /\ disk \in {saveRun.pre, saveRun.new}
    /\ Loaded(disk) \in {Loaded(saveRun.pre), Loaded(saveRun.new)}
    /\ saveRun.crashed => cache \in {Loaded(saveRun.pre), Loaded(saveRun.new)}

\* ------------------------------------------------ log writers: claim helpers
\* the lines of a JSONL file: the runs of bytes its newline bytes end
JsonlLines(file) == SplitAt(file, {"\n"}, <<>>, <<>>)

\* the bytes of a file made of these lines
RECURSIVE Rejoined(_)
Rejoined(lines) ==
  IF lines = <<>> THEN <<>> ELSE Head(lines) \o <<"\n">> \o Rejoined(Tail(lines))

\* the bytes some record serialises to under the writer's json.dumps
IsRecordLine(bytes) ==
  \E r \in Records : bytes = Encode(JsonDumps(r, writer = "rotating"))

\* the file the last append wrote to before it checked the size
LastWritten == Written(lastAppend.pre, lastAppend.line)

\* ------------------------------------------------------------------ C12
\* C12: for both log writers, after every append the log file holds at most
\* max_bytes bytes (every line counted with its newline), provided the
\* appended record's line with its newline does not itself exceed max_bytes.
C12_SizeBounded ==
  (lastAppend.done /\ LineSize(lastAppend.line) <= maxBytes) => Len(logFile) <= maxBytes

C12_Witness ==
  /\ writer = "rotating" /\ lastAppend.done /\ lastAppend.rotated
  /\ LineSize(lastAppend.line) <= maxBytes
  /\ Len(JsonlLines(logFile)) = 2 /\ Len(logFile) <= maxBytes
  /\ Len(JsonlLines(LastWritten)) = 3

\* ------------------------------------------------------------------ C13
\* C13: for both log writers, after append(R) returns, with or without a
\* rotation, the last line of the log file is the serialisation of R.
C13_LastLineIsRecord ==
  lastAppend.done =>
    /\ logFile # <<>>
    /\ logFile = Rejoined(JsonlLines(logFile))
    /\ JsonlLines(logFile)[Len(JsonlLines(logFile))] = Encode(lastAppend.line)

\* ------------------------------------------------------------------ C14
\* C14: for JSONLManager, after any appends and rotations every line of the
\* log file is one complete record exactly as it was appended (a line the
\* file held before the last append, or the line that append wrote) and
\* parses as JSON; rotation never splits, truncates or merges a record.
C14_LinesIntact ==
  writer = "manager" =>
    /\ logFile = Rejoined(JsonlLines(logFile))
    /\ \A i \in 1..Len(JsonlLines(logFile)) :
         /\ IsRecordLine(JsonlLines(logFile)[i])
         /\ lastAppend.done =>
              JsonlLines(logFile)[i] \in Range(JsonlLines(LastWritten))

C14_Witness ==
  /\ writer = "manager" /\ everRotated /\ lastAppend.done
  /\ Len(JsonlLines(logFile)) = 2
  /\ \E i \in 1..Len(logFile) : logFile[i] = "xE2"

\* ------------------------------------------------------------------ C15
\* C15: when an append makes the log exceed max_bytes, the content after
\* rotation is exactly the longest suffix of the pre-rotation complete lines
\* whose total length with newlines is at most max_bytes (in order, no
\* gaps, up to the newest line); otherwise no line is removed.
C15_LongestSuffix ==
  lastAppend.done =>
    LET lines == JsonlLines(LastWritten)
        fits == {k \in 1..(Len(lines) + 1) :
                   Len(Rejoined(SubSeq(lines, k, Len(lines)))) <= maxBytes}
        first == CHOOSE k \in fits : \A j \in fits : k <= j
    IN IF Len(LastWritten) > maxBytes
       THEN logFile = Rejoined(SubSeq(lines, first, Len(lines)))
       ELSE logFile = LastWritten

\* ------------------------------------------------------------------ C16
\* C16: when the appended record's line with its newline alone exceeds
\* max_bytes, rotation keeps that record verbatim as the content of the log;
\* the record is not dropped and the log is not left empty.
C16_OversizedKept ==
  (lastAppend.done /\ LineSize(lastAppend.line) > maxBytes) =>
    logFile = Encode(lastAppend.line \o <<"\n">>)

\* ------------------------------------------------------------------ C17
\* the file a single thread making these appends one after another leaves
RECURSIVE SequentialAppends(_, _)
SequentialAppends(file, lines) ==
  IF lines = <<>> THEN file
  ELSE SequentialAppends(ManagerRotated(Written(file, Head(lines)), maxBytes), Tail(lines))

\* the file equals the result of the appends made in the order of the lock
C17_Sequential ==
  lock = "free" => logFile = SequentialAppends(<<>>, order)

\* every line of the file is a line some thread appended
C17_Intact ==
  /\ lock = "free" => logFile = Rejoined(JsonlLines(logFile))
  /\ \A i \in 1..Len(JsonlLines(logFile)) :
       lock = "free" => \E j \in 1..Len(order) : JsonlLines(logFile)[i] = Encode(order[j])

\* a record is missing only as one of the oldest lines: the file holds the
\* newest lines, and the newest of all when it fits in max_bytes
C17_OnlyOldestLost ==
  (lock = "free" /\ order # <<>>) =>
    /\ \E k \in 1..(Len(order) + 1) :
         JsonlLines(logFile) = [i \in 1..(Len(order) + 1 - k) |-> Encode(order[k + i - 1])]
    /\ LineSize(order[Len(order)]) <= maxBytes =>
         /\ logFile # <<>>
         /\ JsonlLines(logFile)[Len(JsonlLines(logFile))] = Encode(order[Len(order)])

\* C17: JSONLManager.append is one critical section under the instance lock:
\* for any interleaving of concurrent appends the file equals the result of
\* some sequential order of them, every line is intact, and no appended
\* record is lost except as one of the oldest lines rotation removes.
C17_AppendAtomic == C17_Sequential /\ C17_Intact /\ C17_OnlyOldestLost

\* ------------------------------------------------------------------ C18
\* the sums of a report's plugin_results entries
RECURSIVE SumErrors(_)
SumErrors(prs) == IF prs = <<>> THEN 0 ELSE Len(Head(prs).errors) + SumErrors(Tail(prs))

RECURSIVE SumFixed(_)
SumFixed(prs) == IF prs = <<>> THEN 0 ELSE Head(prs).auto_fixed + SumFixed(Tail(prs))

\* C18: in every report core process_file returns for a processed file,
\* summary.plugins_run is the number of plugin_results entries,
\* summary.total_errors the sum of their numbers of errors and
\* summary.auto_fixed the sum of their auto-fixed counts; the cache entry's
\* had_errors equals (total_errors > 0).
C18_ReportTotals ==
  impl = "core" =>
    /\ \A i \in 1..Len(results) :
         StatusOf(results[i]) = "report" =>
           /\ results[i].summary.plugins_run = Len(results[i].plugin_results)
           /\ results[i].summary.total_errors = SumErrors(results[i].plugin_results)
           /\ results[i].summary.auto_fixed = SumFixed(results[i].plugin_results)
    /\ (hasCache /\ cur.outcome = "processed") =>
         /\ cur.f \in DOMAIN cache
         /\ cache[cur.f].had_errors = (cur.record.summary.total_errors > 0)

C18_Witness ==
  /\ impl = "core" /\ hasCache /\ cur.outcome = "processed" /\ LastRecorded
  /\ cur.record.summary = [plugins_run |-> 2, total_errors |-> 2, auto_fixed |-> 0]
  /\ cache[cur.f].had_errors
  /\ Len(results) = 2 /\ StatusOf(results[1]) = "report"
  /\ results[1].summary = [plugins_run |-> 2, total_errors |-> 0, auto_fixed |-> 1]

\* ------------------------------------------------------------------ C19
\* C19: every record in the list core process_files returns carries a
\* status field whose value is processed, skipped, no_plugins or failed.
C19_StatusField ==
  impl = "core" =>
    \A i \in 1..Len(results) :
      /\ "status" \in DOMAIN results[i]
      /\ results[i].status \in {"processed", "skipped", "no_plugins", "failed"}

\* ------------------------------------------------------------------ C20
\* position of a plugin id in ascending lexicographic order
LexRank(id) == CHOOSE i \in 1..Len(NameOrder) : NameOrder[i] = id

\* the topological order that takes, at every step, the lexicographically
\* smallest applicable plugin whose applicable prerequisites are all placed
RECURSIVE LexOrderFrom(_, _, _)
LexOrderFrom(reg, f, placed) ==
  LET ready == {b \in AppIds(reg, f) \ Range(placed) :
                  \A a \in AppIds(reg, f) : MustPrecede(reg, f, a, b) => a \in Range(placed)}
      next == CHOOSE b \in ready : \A c \in ready : LexRank(b) <= LexRank(c)
  IN IF ready = {} THEN placed ELSE LexOrderFrom(reg, f, Append(placed, next))

\* C20: ordered_plugins places plugins that requires-edges leave unordered
\* in ascending lexicographic plugin_id order, so the sequence it returns
\* depends only on the set of applicable plugins and their requires-edges,
\* not on the order of registration.
C20_LexicographicTies ==
  (ordRet.op = "ordered_plugins" /\ ordRet.raised = "") =>
    ordRet.order = LexOrderFrom(registry, ordRet.file, <<>>)

\* ------------------------------------------------------------------ C21
\* C21: ordered_plugins(file) contains exactly the plugins applicable to the
\* file; a requires entry naming a plugin that is registered but not
\* applicable, or not registered at all, is dropped: it never brings the
\* non-applicable plugin into the returned order and never raises.
C21_OnlyApplicable ==
  ordRet.op = "ordered_plugins" =>
    /\ ordRet.raised = "" => Range(ordRet.order) = AppIds(registry, ordRet.file)
    /\ ordRet.raised # "" => AppCycle(registry, ordRet.file)

\* ------------------------------------------------------------------ C22
\* C22: PluginManager.execute runs every plugin of ordered_plugins in order
\* and stops early only on a PluginError raised by the manager itself; when
\* a plugin's run raises any other exception the fault is captured as that
\* plugin's result and the remaining plugins are still run.
C22_RunFaultsCaptured ==
  (impl = "pipeline" /\ batch.ended = "raised" /\ cur.cause = "plugin") =>
    batch.raised = "PluginError"


\* ------------------------------------------------------------------ C23
\* C23: in core process_file a failure of the JSONL log append does not fail
\* the file: the call goes on to the cache update and its result is the
\* processed report, never a failed record.
C23_LogFailureTolerated ==
  (impl = "core" /\ cur.cause = "log") =>
    /\ cur.outcome = "processed"
    /\ StatusOf(cur.record) # "failed"


\* ------------------------------------------------------------------ C24
\* the records the call in progress has appended to the log
NewRecords == SubSeq(log, Len(cur.pre.log) + 1, Len(log))

C25_Original ==
  (impl = "core" /\ chain.stage = 1) =>
    /\ IsFile(files, chain.f)
    /\ cache[chain.f].hash = HashFile(files, chain.f)

\* C25: the hash mark_validated writes for F is the digest of F's content at
\* the moment mark_validated runs when F was not modified since the
\* has_changed(F) call that staged the digest; when it was, the hash is the
\* digest of the content that has_changed call read.
C25_HashAtMark ==
  (impl = "core" /\ chain.stage = 1 /\ chain.clean) =>
    /\ IsFile(files, chain.f)
    /\ cache[chain.f].hash = HashFile(files, chain.f)

C25_Witness ==
  /\ impl = "core" /\ chain.stage = 1 /\ chain.clean
  /\ chain.f = "/d/f1.txt"
  /\ cache[chain.f].hash = <<"sha256", 2>>
  /\ files[chain.f] = [regular |-> TRUE, bytes |-> 2]


\* ------------------------------------------------------------------ C26
\* C26: for the core cache, whenever every change made by mark_validated and
\* remove has been saved, a new FileHashCache on the same file holds a
\* mapping equal to the one saved (same keys, same hash, last_validated and
\* had_errors per key); and save() on a cache that is not dirty leaves the
\* cache file as it was.
C26_SaveRoundTrip ==
  /\ [](impl = "core" =>
          /\ ~dirty => CoreLoad(disk) = cache
          /\ (ret.op = "load") => cache = CoreLoad(disk))
  /\ [][(impl = "core" /\ ~dirty /\ ret'.op = "save") => disk' = disk]_vars

C26_Witness ==
  /\ impl = "core" /\ chain.stage = 3 /\ chain.e
  /\ ret.op = "load" /\ ~dirty
  /\ chain.f \in DOMAIN cache /\ cache[chain.f].had_errors
  /\ cache[chain.f].hash = <<"sha256", 2>>
  /\ disk = Serialize(cache)


\* ------------------------------------------------------------------ C27
\* a payload with all three fields of the right type, and one that is no
\* object or has a field of the wrong type
WellFormed(payload) ==
  /\ payload.t = "obj"
  /\ DOMAIN payload.m = {"hash", "last_validated", "had_errors"}
  /\ payload.m["hash"].t = "str"
  /\ payload.m["last_validated"].t = "str"
  /\ payload.m["had_errors"].t = "bool"

IllTyped(payload) ==
  \/ payload.t # "obj"
  \/ payload.m["hash"].t # "str"
  \/ payload.m["last_validated"].t # "str"
  \/ "had_errors" \in DOMAIN payload.m /\ payload.m["had_errors"].t # "bool"

\* C27: constructing a FileHashCache (either one) never fails because of what
\* the cache file holds: a file that is not JSON, or JSON whose top level is
\* no mapping, gives an empty cache; of a mapping every well-formed entry is
\* loaded and every entry with a field of the wrong type is dropped.
C27_LoadNeverFails ==
  ret.op = "construct" =>
    /\ ret.out = "None"
    /\ (disk.kind # "json" \/ disk.top.t # "obj") => cache = EmptyDict
    /\ (disk.kind = "json" /\ disk.top.t = "obj") =>
         \A p \in DOMAIN disk.top.m :
           /\ WellFormed(disk.top.m[p]) => p \in DOMAIN cache
           /\ IllTyped(disk.top.m[p]) => p \notin DOMAIN cache


\* ------------------------------------------------------------------ C28
\* C28: in core process_file, when no plugin of the manager's list can
\* process the file (the list is empty, or holds only disabled or
\* extension-mismatched plugins) the result is {file, status "no_plugins"}
\* and nothing is published, logged or written to the cache; a processed
\* report is returned only when at least one plugin ran.
C28_NoApplicablePlugin ==
  impl = "core" =>
    /\ cur.outcome = "processed" => cur.summaries # <<>>
    /\ (cur.outcome # "" /\ cur.plugins # <<>> /\ ProcessablePlugins(cur) = <<>>) =>
         /\ cur.record = [file |-> cur.f, status |-> "no_plugins"]
         /\ outputs = cur.pre.outputs
         /\ log = cur.pre.log
         /\ cache = cur.pre.cache /\ disk = cur.pre.disk


\* ------------------------------------------------------------------ C29
\* the scratch content the k-th plugin of the pass must find
LeftBy(c, k) ==
  IF k = 1 THEN c.staged ELSE Worked(c.seen[k - 1].content, c.runs[k - 1])

C30_HasChangedRecords ==
  /\ []((impl = "pipeline" /\ ret.op = "has_changed" /\ ret.out \in {"True", "False"}) =>
          /\ Resolve(ret.path) \in DOMAIN cache
          /\ cache[Resolve(ret.path)].hash = HashFile(files, Resolve(ret.path))
          /\ ret.out = "True" => dirty)
  /\ [][(impl = "pipeline" /\ ret'.op = "has_changed" /\ ret'.out \in {"True", "False"}) =>
          (ret'.out = "False" <=>
             /\ Resolve(ret'.path) \in DOMAIN cache
             /\ cache[Resolve(ret'.path)].hash = HashFile(files, Resolve(ret'.path)))]_vars

C30_Witness ==
  /\ impl = "pipeline" /\ ret = Ret("has_changed", "f1.txt", "False")
  /\ dirty /\ "/d/f1.txt" \notin DOMAIN Loaded(disk)
  /\ files["/d/f1.txt"] = [regular |-> TRUE, bytes |-> 2]
  /\ cache["/d/f1.txt"] = [hash |-> <<"sha256", 2>>, last_validated |-> 2, had_errors |-> FALSE]


\* ------------------------------------------------------------------ C31
\* C31: for the pipeline cache, after mark_validated(F, e), save() and a new
\* FileHashCache on the same cache file, whatever calls came before, the
\* entry of F has had_errors = e and has_changed(F) on the unchanged file
\* returns False.
C31_PipeReloadUnchanged ==
  impl = "pipeline" =>
    /\ chain.stage = 3 =>
         /\ chain.f \in DOMAIN cache
         /\ cache[chain.f].had_errors = chain.e
    /\ (chain.stage = 4 /\ ret.op = "has_changed") => ret.out = "False"

\* ------------------------------------------------ core PluginManager
\* bounds of the plugin directories tried
MaxManifests == 2
MaxDeps == 2
MaxInstances == 3

\* the plugin names manifests carry; "" stands for a manifest without a name
ManifestNames == {"a", "b"}

\* the entries a manifest's "dependencies" list may hold, in a fixed order
DepEntries == <<JStr("a"), JStr("b"), JStr("c"), JNum(1)>>

DepLists ==
  {SelectSeq(DepEntries, LAMBDA x : x \in S) :
     S \in {T \in SUBSET Range(DepEntries) : Cardinality(T) <= MaxDeps}}

\* the content of a manifest.json
ManifestFiles == [name : ManifestNames \cup {""}, dependencies : DepLists]

\* BasePlugin.load_manifest: the parsed manifest, ManifestError when the
\* required name is missing
LoadManifest(m) == [raised |-> m.name = "", manifest |-> m]

\* name in manifests, for the i-th manifest path
Dup(d, i) == \E j \in 1..(i - 1) : d[j].name = d[i].name

\* some dependency entry is not a str
BadDeps(m) == \E k \in 1..Len(m.dependencies) : m.dependencies[k].t # "str"

\* tuple(validated_dependencies)
DepNames(m) == [k \in 1..Len(m.dependencies) |-> m.dependencies[k].v]

\* the dependencies dict handed to TopologicalSorter, in insertion order
Graph(d) == [i \in 1..Len(d) |-> [plugin_id |-> d[i].name, requires |-> DepNames(d[i])]]

\* some declared dependency is not a key of manifests
UnknownDep(d) ==
  \E i \in 1..Len(d) : \E x \in Range(DepNames(d[i])) :
     \A j \in 1..Len(d) : d[j].name # x

\* why discover() raises ManifestError on directory d, "" when it does not
DiscoverRaises(d) ==
  LET bad(i) == LoadManifest(d[i]).raised \/ Dup(d, i) \/ BadDeps(d[i])
  IN IF \E i \in 1..Len(d) : bad(i)
     THEN LET i == CHOOSE k \in 1..Len(d) : bad(k) /\ \A j \in 1..(k - 1) : ~bad(j)
          IN IF LoadManifest(d[i]).raised THEN "manifest"
             ELSE IF Dup(d, i) THEN "duplicate" ELSE "dependency type"
     ELSE IF UnknownDep(d) THEN "unknown dependency"
     ELSE IF HasCycle(Graph(d)) THEN "cycle"
     ELSE ""

\* the manager's state once discover() has run to its end on directory d
Replaced(mgr, d) ==
  [manifests |-> [n \in {d[i].name : i \in 1..Len(d)} |->
                    LoadManifest(d[CHOOSE i \in 1..Len(d) : d[i].name = n]).manifest],
   dependencies |-> [n \in {d[i].name : i \in 1..Len(d)} |->
                       DepNames(d[CHOOSE i \in 1..Len(d) : d[i].name = n])],
   load_order |-> StaticOrder(Graph(d)),
   instances |-> EmptyDict,
   serial |-> mgr.serial]

\* a discover() that assigns its state before it validates
DiscoveredEager(mgr, d) ==
  IF DiscoverRaises(d) \in {"", "unknown dependency", "cycle"}
  THEN [Replaced(mgr, d) EXCEPT !.load_order =
          IF DiscoverRaises(d) = "" THEN StaticOrder(Graph(d)) ELSE <<>>]
  ELSE mgr

\* the manager's state after discover() on directory d
Discovered(mgr, d) ==
  IF DiscoverRaises(d) = "" THEN Replaced(mgr, d) ELSE mgr

\* load_plugins() instantiating every name of the load order again
ToInstantiateAll(mgr) == mgr.load_order

\* the names load_plugins() still has to instantiate, in load order
ToInstantiate(mgr) ==
  SelectSeq(mgr.load_order, LAMBDA n : n \notin DOMAIN mgr.instances)

\* plugin_cls(manifest, plugin_dir): a fresh object
NewInstance(n, serial) == [name |-> n, id |-> serial]

\* self._instances after the first j names of todo were instantiated
RECURSIVE Instantiate(_, _, _)
Instantiate(mgr, todo, j) ==
  IF j = 0 THEN mgr
  ELSE Instantiate([mgr EXCEPT !.instances = Put(@, Head(todo), NewInstance(Head(todo), mgr.serial + 1)),
                               !.serial = @ + 1],
                   Tail(todo), j - 1)

\* the other variables, which no manager call changes
mgrFrame == <<cacheVars, orderVars, saveVars, logVars, hasCache, corePlugins, pc, inputs,
              results, batch, calls, cur, outputs, reports, log, prior, ulidVars>>

\* a plugin directory with a manifest.json appears (last in path order)
AddPluginDir(m) ==
  /\ Len(pluginsDir) < MaxManifests
  /\ pluginsDir' = Append(pluginsDir, m)
  /\ mgrRet' = NoMgrRet
  /\ UNCHANGED <<manager, mgrFrame>>

\* the last plugin directory is removed
RemovePluginDir ==
  /\ pluginsDir # <<>>
  /\ pluginsDir' = SubSeq(pluginsDir, 1, Len(pluginsDir) - 1)
  /\ mgrRet' = NoMgrRet
  /\ UNCHANGED <<manager, mgrFrame>>

\* manager.discover()
Discover ==
  /\ manager' = Discovered(manager, pluginsDir)
  /\ mgrRet' = [op |-> "discover",
                raised |-> IF DiscoverRaises(pluginsDir) = "" THEN "" ELSE "ManifestError",
                msg |-> DiscoverRaises(pluginsDir), pre |-> manager, made |-> <<>>,
                returned |-> <<>>]
  /\ UNCHANGED <<pluginsDir, mgrFrame>>

\* manager.load_plugins(); the j-th import or instantiation fails when j is
\* short of the names to instantiate
LoadPlugins ==
  LET first == manager.load_order = <<>>
      mgr == IF first THEN Discovered(manager, pluginsDir) ELSE manager
      todo == ToInstantiate(mgr)
  IN IF first /\ DiscoverRaises(pluginsDir) # ""
     THEN /\ mgrRet' = [op |-> "load_plugins", raised |-> "ManifestError",
                        msg |-> DiscoverRaises(pluginsDir), pre |-> manager,
                        made |-> <<>>, returned |-> <<>>]
          /\ UNCHANGED <<manager, pluginsDir, mgrFrame>>
     ELSE \E j \in 0..Len(todo) :
            /\ mgr.serial + j <= MaxInstances
            /\ manager' = Instantiate(mgr, todo, j)
            /\ mgrRet' = [op |-> "load_plugins",
                          raised |-> IF j < Len(todo) THEN "PluginLoadError" ELSE "",
                          msg |-> "", pre |-> manager,
                          made |-> SubSeq(todo, 1, j),
                          returned |-> IF j < Len(todo) THEN <<>>
                                       ELSE [k \in 1..Len(mgr.load_order) |->
                                               manager'.instances[mgr.load_order[k]]]]
            /\ UNCHANGED <<pluginsDir, mgrFrame>>

InitDiscover ==
  /\ registry = <<>> /\ ordRet = NoOrdRet
  /\ impl = "core" /\ files = [f \in Files |-> NoFile] /\ cache = EmptyDict
  /\ pending = EmptyDict /\ dirty = FALSE /\ disk = NoCacheFile
  /\ ret = Ret("init", "", "None") /\ chain = NoChain /\ touched = {}
  /\ hasCache = TRUE /\ corePlugins = <<>> /\ pc = "idle" /\ inputs = <<>>
  /\ results = <<>> /\ batch = NoBatch /\ calls = 0 /\ cur = NoCall
  /\ outputs = EmptyDict /\ reports = EmptyDict /\ log = <<>>
  /\ prior = [f \in Files |-> ""]
  /\ cachePath = "cache.json" /\ tmpFile = NoCacheFile /\ savePc = "idle"
  /\ saveRun = NoSaveRun
  /\ writer = "manager" /\ maxBytes = MaxBytes /\ logFile = <<>>
  /\ lastAppend = NoAppend /\ everRotated = FALSE
  /\ threads = [t \in Threads |-> IdleThread] /\ lock = "free" /\ order = <<>>
  /\ pluginsDir = <<>> /\ manager = NoManager /\ mgrRet = NoMgrRet
  /\ clock = 0 /\ stamp = NoStamp

NextDiscover ==
  \/ \E m \in ManifestFiles : AddPluginDir(m)
  \/ RemovePluginDir
  \/ Discover
  \/ LoadPlugins

SpecDiscover == InitDiscover /\ [][NextDiscover]_vars

\* ------------------------------------------------------------------ C32
\* C32: core PluginManager.discover() raises ManifestError when two manifests
\* share a name, when a dependency entry is not a string, when a dependency
\* names no discovered manifest, or when the dependency graph has a cycle;
\* and whenever discover() raises, the manager's manifests, dependency
\* graph, load order and instances are what they were before the call.
SharedName ==
  \E i, j \in 1..Len(pluginsDir) : i < j /\ pluginsDir[i].name = pluginsDir[j].name

NonStringEntry == \E i \in 1..Len(pluginsDir) : BadDeps(pluginsDir[i])

NamesNoManifest ==
  \E i \in 1..Len(pluginsDir) : \E k \in 1..Len(pluginsDir[i].dependencies) :
     /\ pluginsDir[i].dependencies[k].t = "str"
     /\ \A j \in 1..Len(pluginsDir) : pluginsDir[j].name # pluginsDir[i].dependencies[k].v

CyclicGraph == ~NonStringEntry /\ HasCycle(Graph(pluginsDir))

C32_DiscoverRaises ==
  mgrRet.op = "discover" =>
    /\ (SharedName \/ NonStringEntry \/ NamesNoManifest \/ CyclicGraph)
         => mgrRet.raised = "ManifestError"
    /\ mgrRet.raised # "" => manager = mgrRet.pre

\* a discover() that failed on a cycle while instances of an earlier
\* discovery were held
C32_Witness ==
  /\ mgrRet.op = "discover" /\ mgrRet.raised = "ManifestError"
  /\ mgrRet.msg = "cycle" /\ Len(pluginsDir) = 2
  /\ DOMAIN manager.instances # {} /\ manager.load_order # <<>>

\* ------------------------------------------------------------------ C33
\* C33: after a successful discover() the load order holds every discovered
\* name exactly once, each plugin after all of its declared dependencies;
\* load_plugins() instantiates the names not yet instantiated in that order,
\* never a name that already has an instance, and returns the instances in
\* load order, so a second call creates nothing and returns the same objects.
C33_LoadOrder ==
  LET lo == manager.load_order
      pos(n) == CHOOSE k \in 1..Len(lo) : lo[k] = n
      left == SelectSeq(lo, LAMBDA n : n \notin DOMAIN mgrRet.pre.instances)
  IN /\ (mgrRet.op = "discover" /\ mgrRet.raised = "") =>
          DOMAIN manager.manifests = {pluginsDir[i].name : i \in 1..Len(pluginsDir)}
     /\ lo # <<>> =>
          /\ Range(lo) = DOMAIN manager.manifests
          /\ Len(lo) = Cardinality(DOMAIN manager.manifests)
          /\ \A n \in DOMAIN manager.manifests :
               \A x \in Range(manager.dependencies[n]) :
                  x \in Range(lo) /\ pos(x) < pos(n)
     /\ (mgrRet.op = "load_plugins" /\ mgrRet.raised # "ManifestError") =>
          /\ Len(mgrRet.made) <= Len(left)
          /\ mgrRet.made = SubSeq(left, 1, Len(mgrRet.made))
          /\ \A i, j \in 1..Len(mgrRet.made) :
               i < j => manager.instances[mgrRet.made[i]].id
                          < manager.instances[mgrRet.made[j]].id
          /\ \A i \in 1..Len(mgrRet.made) :
               manager.instances[mgrRet.made[i]].id > mgrRet.pre.serial
          /\ \A n \in DOMAIN mgrRet.pre.instances :
               lo = mgrRet.pre.load_order =>
                 /\ n \in DOMAIN manager.instances
                 /\ manager.instances[n] = mgrRet.pre.instances[n]
          /\ mgrRet.raised = "" =>
               /\ mgrRet.made = left
               /\ mgrRet.returned = [k \in 1..Len(lo) |-> manager.instances[lo[k]]]

\* a second load_plugins() on a load order that differs from the path order
C33_Witness ==
  /\ mgrRet.op = "load_plugins" /\ mgrRet.raised = ""
  /\ mgrRet.made = <<>> /\ Len(mgrRet.returned) = 2
  /\ manager.load_order = <<"b", "a">>
  /\ pluginsDir[1].name = "a"

\* ------------------------------------------------ _generate_ulid
MaxMillis == 1100   \* the clock values tried: 0 .. MaxMillis milliseconds

crockford32 ==
  <<"0", "1", "2", "3", "4", "5", "6", "7", "8", "9", "A", "B", "C", "D", "E", "F",
    "G", "H", "J", "K", "M", "N", "P", "Q", "R", "S", "T", "V", "W", "X", "Y", "Z">>

\* os.urandom(16): the byte strings tried
Urandom ==
  {[i \in 1..16 |-> 0], [i \in 1..16 |-> 255], [i \in 1..16 |-> (37 * i) % 256]}

\* 2^s modulo m
RECURSIVE Pow2Mod(_, _)
Pow2Mod(s, m) == IF s = 0 THEN 1 % m ELSE (2 * Pow2Mod(s - 1, m)) % m

\* the b with 2^b <= n < 2^(b+1), for n >= 1
RECURSIVE Log2Floor(_)
Log2Floor(n) == IF n < 2 THEN 0 ELSE 1 + Log2Floor(n \div 2)

\* the j with 2^(-j) <= k/1000 < 2^(1-j), for 1 <= k < 1000
RECURSIVE NegExp(_)
NegExp(k) == IF k >= 1000 THEN 0 ELSE 1 + NegExp(2 * k)

RECURSIVE Pow2(_)
Pow2(n) == IF n = 0 THEN 1 ELSE 2 * Pow2(n - 1)

\* int(timestamp.timestamp() * 1000) for a timestamp of k whole milliseconds,
\* in IEEE double arithmetic: timestamp() is the double nearest to k/1000,
\* m / 2^s with a 53-bit m; r = k * 2^s - 1000 * m is what that rounding
\* left out. The product by 1000 is k - r / 2^s, rounded to the nearest
\* double again; it falls on the double below k, and int() truncates it to
\* k - 1, exactly when r / 2^s exceeds half the spacing of doubles below k.
Millis(k) ==
  IF k = 0 THEN 0
  ELSE LET a == IF k >= 1000 THEN Log2Floor(k \div 1000) ELSE 0 - NegExp(k)
           s == 52 - a
           b == Log2Floor(k)
           r0 == ((k % 1000) * Pow2Mod(s, 1000)) % 1000
           r == IF r0 < 500 THEN r0 ELSE r0 - 1000
           half == IF k = Pow2(b) THEN Pow2(b - a - 2) ELSE Pow2(b - a - 1)
       IN IF r > half THEN k - 1 ELSE k

\* the divmod loop: the ten base-32 digits of value, least significant first
RECURSIVE TimeChars(_, _)
TimeChars(value, n) ==
  IF n = 0 THEN <<>>
  ELSE <<crockford32[(value % 32) + 1]>> \o TimeChars(value \div 32, n - 1)

Reversed(q) == [i \in 1..Len(q) |-> q[Len(q) + 1 - i]]

\* str.rjust(width, "0")
RECURSIVE Rjust(_, _)
Rjust(q, width) == IF Len(q) >= width THEN q ELSE Rjust(<<"0">> \o q, width)

\* crockford32[b & 0x1F] for b in os.urandom(16)
RandomComponent(bytes) == [i \in 1..Len(bytes) |-> crockford32[(bytes[i] % 32) + 1]]

\* _generate_ulid(timestamp), with the bytes os.urandom returned
GenerateUlid(k, bytes) ==
  LET full == Rjust(Reversed(TimeChars(Millis(k), 10)), 10) \o RandomComponent(bytes)
  IN SubSeq(full, 1, IF Len(full) < 26 THEN Len(full) ELSE 26)

\* timestamp.isoformat(): the timestamp to the microsecond
Isoformat(k) == k

\* timestamp.strftime("%Y%m%d_%H%M%S"): the timestamp to the second
Strftime(k) == k \div 1000

\* the other variables, which reading the clock leaves alone
ulidFrame == <<cacheVars, orderVars, saveVars, logVars, hasCache, corePlugins, pc, inputs,
               results, batch, calls, cur, outputs, reports, log, prior, mgrVars>>

\* process_file reads the clock, makes the run_id, and later hands the same
\* timestamp to _copy_to_output and _build_report
CoreStamp(bytes) ==
  /\ stamp' = [timestamp |-> clock, run_id |-> GenerateUlid(clock, bytes),
               timestamp_utc |-> Isoformat(clock), safe_timestamp |-> Strftime(clock)]
  /\ UNCHANGED <<clock, ulidFrame>>

\* the clock stands at any of the times tried
InitUlid ==
  /\ registry = <<>> /\ ordRet = NoOrdRet
  /\ impl = "core" /\ files = [f \in Files |-> NoFile] /\ cache = EmptyDict
  /\ pending = EmptyDict /\ dirty = FALSE /\ disk = NoCacheFile
  /\ ret = Ret("init", "", "None") /\ chain = NoChain /\ touched = {}
  /\ hasCache = TRUE /\ corePlugins = <<>> /\ pc = "idle" /\ inputs = <<>>
  /\ results = <<>> /\ batch = NoBatch /\ calls = 0 /\ cur = NoCall
  /\ outputs = EmptyDict /\ reports = EmptyDict /\ log = <<>>
  /\ prior = [f \in Files |-> ""]
  /\ cachePath = "cache.json" /\ tmpFile = NoCacheFile /\ savePc = "idle"
  /\ saveRun = NoSaveRun
  /\ writer = "manager" /\ maxBytes = MaxBytes /\ logFile = <<>>
  /\ lastAppend = NoAppend /\ everRotated = FALSE
  /\ threads = [t \in Threads |-> IdleThread] /\ lock = "free" /\ order = <<>>
  /\ pluginsDir = <<>> /\ manager = NoManager /\ mgrRet = NoMgrRet
  /\ clock \in 0..MaxMillis /\ stamp = NoStamp

NextUlid == \E bytes \in Urandom : CoreStamp(bytes)

SpecUlid == InitUlid /\ [][NextUlid]_vars

\* ------------------------------------------------------------------ C34
\* the value the first ten characters of a run_id stand for, big-endian
RECURSIVE DecodeBase32(_, _)
DecodeBase32(q, acc) ==
  IF q = <<>> THEN acc
  ELSE DecodeBase32(Tail(q),
                    32 * acc + (CHOOSE d \in 0..31 : crockford32[d + 1] = Head(q)))

\* C34: the run_id is exactly 26 characters of the Crockford alphabet, its
\* first 10 characters decode to the timestamp in whole milliseconds, and the
\* report and the published file name carry that same timestamp.
C34_UlidShape ==
  stamp # NoStamp =>
    /\ Len(stamp.run_id) = 26
    /\ \A i \in 1..Len(stamp.run_id) : stamp.run_id[i] \in Range(crockford32)
    /\ DecodeBase32(SubSeq(stamp.run_id, 1, 10), 0) = stamp.timestamp
    /\ stamp.timestamp_utc = stamp.timestamp
    /\ stamp.safe_timestamp = stamp.timestamp \div 1000

\* ------------------------------------------------------------------ C35
\* C35: core has_changed only stages the digest: a has_changed call leaves
\* every cache entry and the dirty flag as they were, so a save() on a cache
\* that is not dirty writes nothing; on one cache object an entry is created
\* or replaced only by mark_validated and disappears only by remove.
C35_Step ==
  (impl = "core" /\ ret'.op # "load") =>
    /\ ret'.op = "has_changed" => (cache' = cache /\ dirty' = dirty)
    /\ (ret'.op = "save" /\ ~dirty) => disk' = disk
    /\ \A f \in DOMAIN cache' :
         (f \notin DOMAIN cache \/ cache'[f] # cache[f]) => ret'.op = "mark_validated"
    /\ \A f \in DOMAIN cache :
         f \notin DOMAIN cache' => ret'.op = "remove"

C35_HasChangedOnlyStages == [][C35_Step]_vars

\* has_changed has staged the digest of a file the clean cache has no entry
\* for, while the cache holds another file's entry
C35_Witness ==
  /\ impl = "core" /\ ret.op = "has_changed" /\ ret.out = "True" /\ ~dirty
  /\ Resolve(ret.path) \in DOMAIN pending
  /\ Resolve(ret.path) \notin DOMAIN cache
  /\ cache # EmptyDict

\* ------------------------------------------------------------------ C36
\* the steps at which a pipeline process_file call can raise after has_changed
RaiseCauses == {"stage", "order", "plugin", "publish", "save", "log"}

\* C36: for the pipeline engine over an initially empty cache, a call
\* returns "skipped" only after an earlier call for the same file and content
\* returned "processed": never on the first call, and never when the
\* previous call for the unmodified file raised; and a call that raised on a
\* file the cache had no entry for leaves no entry for it in the in-memory
\* cache or in the cache file.
C36_SkippedOnlyAfterProcessed ==
  impl = "pipeline" =>
    /\ cur.outcome = "skipped" => (cur.run_id > 1 /\ cur.prior \notin RaiseCauses)
    /\ (cur.outcome = "raised" /\ cur.cause \in RaiseCauses
          /\ cur.f \notin DOMAIN cur.pre.cache) =>
         (cur.f \notin DOMAIN cache /\ cur.f \notin DOMAIN Loaded(disk))

\* ----------------------------- JSONLRotatingLogger.append called by threads
\* The logger has no lock: the steps of one append interleave freely with
\* those of the others. write_text of the temporary file and os.replace are
\* taken as one step.
\* line 19: the line is built
RotDumps(t, record) ==
  /\ threads[t].pc = "idle"
  /\ Len(order) + Cardinality({u \in Threads : threads[u].pc = "dumped"}) < MaxAppends
  /\ threads' = [threads EXCEPT ![t] = [pc |-> "dumped", line |-> JsonDumps(record, TRUE)]]
  /\ UNCHANGED <<writer, maxBytes, logFile, lastAppend, everRotated, lock, order>>
  /\ UNCHANGED <<cacheVars, orderVars, engineVars, saveVars>>

\* lines 21-22: the line is appended to the file
RotWrite(t) ==
  /\ threads[t].pc = "dumped"
  /\ logFile' = Written(logFile, threads[t].line)
  /\ order' = Append(order, threads[t].line)
  /\ threads' = [threads EXCEPT ![t].pc = "written"]
  /\ UNCHANGED <<writer, maxBytes, lastAppend, everRotated, lock>>
  /\ UNCHANGED <<cacheVars, orderVars, engineVars, saveVars>>

\* lines 26-29: exists() and stat().st_size <= max_bytes
RotStat(t) ==
  /\ threads[t].pc = "written"
  /\ threads' = [threads EXCEPT ![t] = IF Len(logFile) <= maxBytes THEN IdleThread
                                         ELSE [pc |-> "over", line |-> <<>>]]
  /\ UNCHANGED <<writer, maxBytes, logFile, lastAppend, everRotated, lock, order>>
  /\ UNCHANGED <<cacheVars, orderVars, engineVars, saveVars>>

\* line 30: read_text; the thread holds the file's bytes as it found them
RotRead(t) ==
  /\ threads[t].pc = "over"
  /\ threads' = [threads EXCEPT ![t] = [pc |-> "read", line |-> logFile]]
  /\ UNCHANGED <<writer, maxBytes, logFile, lastAppend, everRotated, lock, order>>
  /\ UNCHANGED <<cacheVars, orderVars, engineVars, saveVars>>

\* lines 31-46: the newest lines of what was read replace the file
RotReplace(t) ==
  /\ threads[t].pc = "read"
  /\ logFile' = RotatingRewritten(threads[t].line, maxBytes)
  /\ everRotated' = TRUE
  /\ threads' = [threads EXCEPT ![t] = IdleThread]
  /\ UNCHANGED <<writer, maxBytes, lastAppend, lock, order>>
  /\ UNCHANGED <<cacheVars, orderVars, engineVars, saveVars>>

\* one JSONLRotatingLogger (or several on one path) used by the threads
InitRotThreads ==
  /\ writer = "rotating"
  /\ maxBytes \in {MinBytes, MaxBytes}
  /\ logFile = <<>> /\ lastAppend = NoAppend /\ everRotated = FALSE
  /\ threads = [t \in Threads |-> IdleThread] /\ lock = "free" /\ order = <<>>
  /\ pluginsDir = <<>> /\ manager = NoManager /\ mgrRet = NoMgrRet
  /\ clock = 0 /\ stamp = NoStamp
  /\ cachePath = "cache.json" /\ tmpFile = NoCacheFile /\ savePc = "idle"
  /\ saveRun = NoSaveRun
  /\ registry = <<>> /\ ordRet = NoOrdRet
  /\ impl = "pipeline" /\ files = [f \in Files |-> NoFile] /\ cache = EmptyDict
  /\ pending = EmptyDict /\ dirty = FALSE /\ disk = NoCacheFile
  /\ ret = Ret("init", "", "None") /\ chain = NoChain /\ touched = {}
  /\ hasCache = TRUE /\ corePlugins = <<>> /\ pc = "idle" /\ inputs = <<>>
  /\ results = <<>> /\ batch = NoBatch /\ calls = 0 /\ cur = NoCall
  /\ outputs = EmptyDict /\ reports = EmptyDict /\ log = <<>>
  /\ prior = [f \in Files |-> ""]

NextRotThreads ==
  \/ \E t \in Threads, record \in Records : RotDumps(t, record)
  \/ \E t \in Threads : RotWrite(t)
  \/ \E t \in Threads : RotStat(t)
  \/ \E t \in Threads : RotRead(t)
  \/ \E t \in Threads : RotReplace(t)

SpecRotThreads == InitRotThreads /\ [][NextRotThreads]_vars

\* ------------------------------------------------------------------ C37
\* the file the appends of `lines`, made one after another, leave
RECURSIVE RotSequential(_, _)
RotSequential(file, lines) ==
  IF lines = <<>> THEN file
  ELSE RotSequential(RotatingRotated(Written(file, Head(lines)), maxBytes), Tail(lines))

\* a rotation replaces a file that grew after the rotation read it: the
\* lines written in between are gone
LostToRotation(t) ==
  /\ threads[t].pc = "read" /\ threads'[t].pc = "idle"
  /\ Len(logFile) > Len(threads[t].line)
  /\ SubSeq(logFile, 1, Len(threads[t].line)) = threads[t].line

\* C37: for any interleaving of concurrent JSONLRotatingLogger.append calls,
\* append followed by rotation behaves as if serialized: once every call has
\* returned the file is what the same appends leave when made one after
\* another in the order of their writes, and no rotation replaces the file
\* after another caller wrote to it since the rotation read it.
C37_RotatingSerialized ==
  /\ []((\A t \in Threads : threads[t].pc = "idle") =>
          logFile = RotSequential(<<>>, order))
  /\ [][\A t \in Threads : ~LostToRotation(t)]_vars

\* ------------------------------------------------------------------ C38
\* a record process_file returned for a file it processed
IsProcessed(r) ==
  IF "status" \in DOMAIN r THEN r.status = "processed" ELSE "file_out" \in DOMAIN r

\* C38: publication never overwrites the output of a different run: any two
\* processed runs of a sequence of process_file calls into one output
\* directory have distinct file_out paths.
C38_DistinctOutputs ==
  \A i, j \in 1..Len(results) :
     (i < j /\ IsProcessed(results[i]) /\ IsProcessed(results[j]))
        => results[i].file_out # results[j].file_out

\* ------------------------------------------------------------------ C39
\* the step ends a process_file call: it returns a record or raises
EndsCall == cur'.outcome # "" /\ cur' # cur

\* C39: process_file never modifies its input: when a call ends, the input
\* file holds what it held when the call began (nothing else having written
\* it meanwhile), whatever the plugins did to the scratch copy; after a
\* processed call the cached hash is the digest of that unmodified input;
\* and the scratch directory is gone whether the call returned or raised.
C39_Step ==
  EndsCall =>
    /\ cur'.clean => files'[cur'.f] = cur'.pre.file
    /\ ~cur'.tmp_dir
    /\ (cur'.clean /\ cur'.outcome = "processed" /\ hasCache) =>
         /\ cur'.f \in DOMAIN cache'
         /\ cache'[cur'.f].hash = HashFile(files', cur'.f)

C39_InputUntouched == [][C39_Step]_vars

\* a processed call whose plugins rewrote the scratch copy
C39_Witness ==
  /\ cur.outcome = "processed" /\ cur.clean /\ hasCache
  /\ \E i \in 1..Len(cur.runs) : cur.runs[i] = "fix"
  /\ cur.work # cur.pre.file
  /\ files[cur.f] = cur.pre.file
  /\ ~cur.tmp_dir

\* ------------------------------------------------------------------ C40
\* a save() that was started has raised: it is over, the process lives on
\* and the cache is still dirty
SaveFailed ==
  savePc = "idle" /\ saveRun.started /\ ~saveRun.crashed /\ dirty

\* C40: dirty-flag invariant of both caches: only a successful save clears
\* the flag, so once a save has returned with the flag clear the cache file
\* holds what that save had to write, and a save that fails leaves the flag
\* set and the previous content of the cache file in place.
C40_DirtyFlag ==
  /\ (savePc = "idle" /\ saveRun.started /\ ~saveRun.crashed /\ ~dirty)
        => disk = saveRun.new
  /\ SaveFailed => disk = saveRun.pre

============================================================================
